---------------------------- MODULE Spec2Model ----------------------------
(***************************************************************************)
(* Model of the social-media-analytics services:                           *)
(*   - app/services/trending.py : TrendingEngine (sliding-window counters) *)
(*     and populate_trending_from_db;                                      *)
(*   - app/services/comments.py : CommentAnalyzer (depth, viral chains);   *)
(*   - app/services/reports.py  : the retried report and engagement calls. *)
(* Spec      : one engine and the database sync, one call after the other. *)
(* SpecInc   : the same without the sync, every increment kept in a ledger.*)
(* SpecConc  : two threads stepping through increment / get_count.         *)
(* SpecComments : the comment analyzer over bounded comment lists.         *)
(* SpecWalk  : one traversal of the comment tree, call by call.            *)
(* SpecShared: two threads in analyses on the module-level analyzer.       *)
(* SpecReco  : RecommendationEngine over bounded hashtag tables.           *)
(* SpecRetry : service calls under the retry wrapper of reports.py.        *)
(* SpecHistory : one analyzer, call after call on changing comments.       *)
(* SpecSync  : increment and the database sync, with the ledger.           *)
(* SpecEngage: insert_engagement_with_transaction on one session.          *)
(***************************************************************************)
EXTENDS Integers, Sequences, FiniteSets, TLC

\* ------------------------------------------------------------- bounds
window_minutes == 1   \* TrendingEngine(window_minutes=...): the retention window
MaxMass == 3          \* the weights of all buckets never add up to more than MaxMass

\* Optional[int]: None is the empty tuple, an int n is <<n>>
None == <<>>
Some(n) == <<n>>

MaxMinute == window_minutes + 1
\* the hashtag names in use, numbered in ascending lexical order
Hashtags == {1, 2}
Minutes == 0..MaxMinute
\* persisted posts may be older than the engine
PostMinutes == {0 - (window_minutes + 1)} \cup Minutes
Amounts == {-1, 1}
WindowArgs == {None} \cup {Some(w) : w \in -1..(window_minutes + 1)}
KArgs == -1..Cardinality(Hashtags)
MinutesBackArgs == 1..(window_minutes + 1)

VARIABLES
    now,             \* time.time() // 60
    counters,        \* TrendingEngine.counters: hashtag -> (minute -> count)
    key_order,       \* insertion order of the keys of counters (dict order)
    last_cleanup,    \* TrendingEngine._last_cleanup
    ret,             \* the last call and what it returned
    ledger,          \* ghost: every amount ever incremented, per (hashtag, minute)
    th,              \* per thread: the call it is in, its position and its locals
    comments,        \* the comments table: the rows of post 1, in query order
    cache_enabled,   \* CommentAnalyzer.cache_enabled
    viral_min_replies, \* CommentAnalyzer.viral_min_replies
    depth_cache,     \* CommentAnalyzer._depth_cache
    children_cache,  \* CommentAnalyzer._children_cache
    analysis,        \* the last analyzer call and what it returned
    walk,            \* a traversal of the comment tree, call by call
    an,              \* per thread: the analysis it is in, its position and its locals
    reco,            \* the hashtag tables, the RecommendationEngine and its last call
    call,            \* a service call: its attempts so far and how it ended
    eng              \* the engagements of the session, comment 1's upvotes, the last insert

trendVars == <<now, counters, key_order, last_cleanup, ret>>
analyzerVars ==
    <<comments, cache_enabled, viral_min_replies, depth_cache, children_cache, analysis>>

\* no traversal under way
WalkIdle == walk = [op |-> "none", pc |-> "start", stack |-> <<>>, memo |-> {}, roots |-> <<>>]

\* no thread in an analysis
SharedIdle == an = <<>>

\* no table and no call of the recommendation engine
RecoIdle ==
    reco = [post_hashtags |-> <<>>, hashtags |-> {}, min_cooccurrence_rate |-> None,
            called |-> FALSE, hashtag |-> None, max_recommendations |-> None,
            result |-> <<>>]

\* no service call under way
NoCall ==
    [fn |-> "none", missing |-> "nothing", pc |-> "idle", attempt_number |-> 0,
     log |-> <<>>, slept |-> 0]
RetryIdle == call = NoCall

\* the variables of the other parts, and their state while those parts rest
\* no engagement and no insert yet
EngIdle ==
    eng = [rows |-> <<>>,
           upvotes |-> 0,
           last |-> [key |-> <<>>, also_increment_counter |-> FALSE, status |-> "none",
                     error |-> "none", message |-> "none", attempts |-> 0]]

restVars == <<walk, an, reco, call, eng>>
RestIdle ==
    /\ WalkIdle
    /\ SharedIdle
    /\ RecoIdle
    /\ RetryIdle
    /\ EngIdle

Threads == {1, 2}

\* a thread that is in no call
IdleThread ==
    [pc |-> "idle", op |-> "none", hashtag |-> 0, count |-> 0, window |-> <<>>,
     keys |-> <<>>,
     cur |-> 0, att |-> FALSE, priv |-> <<>>, old |-> <<>>, v |-> 0, result |-> None]

\* no thread has called yet
ThreadsInit == th = [t \in Threads |-> IdleThread]

\* CommentAnalyzer.__init__ with the defaults, no comment stored
AnalyzerIdle ==
    /\ comments = <<>>
    /\ cache_enabled = TRUE
    /\ viral_min_replies = 3
    /\ depth_cache = <<>>
    /\ children_cache = <<>>
    /\ analysis = [op |-> "init", post_id |-> 0, raised |-> FALSE, value |-> None,
                   queries |-> <<>>]

\* ------------------------------------------------------------- helpers
RECURSIVE SumOver(_, _)
SumOver(f, S) ==
    IF S = {} THEN 0
    ELSE LET x == CHOOSE y \in S : TRUE
         IN f[x] + SumOver(f, S \ {x})

\* buckets.items() restricted to minute >= cutoff, summed
WindowSum(buckets, cutoff) ==
    SumOver(buckets, {m \in DOMAIN buckets : m >= cutoff})

RECURSIVE SeqSum(_)
SeqSum(s) == IF s = <<>> THEN 0 ELSE Head(s) + SeqSum(Tail(s))

SeqSet(s) == {s[i] : i \in 1..Len(s)}

\* all orderings of a finite set, as sequences
Perms(S) ==
    {s \in [1..Cardinality(S) -> S] : \A i, j \in 1..Cardinality(S) : i # j => s[i] # s[j]}

\* Python's lst[:k]
Slice(lst, k) ==
    LET n == Len(lst)
        stop == IF k >= 0 THEN (IF k < n THEN k ELSE n)
                ELSE (IF n + k > 0 THEN n + k ELSE 0)
    IN SubSeq(lst, 1, stop)

\* ------------------------------------------------------------- _cleanup_old_buckets
\* mutant: del buckets[minute] for minute <= cutoff
DropOld_AtCutoff(buckets, cutoff) ==
    [m \in {x \in DOMAIN buckets : x > cutoff} |-> buckets[m]]

\* del buckets[minute] for minute < cutoff
DropOld(buckets, cutoff) ==
    [m \in {x \in DOMAIN buckets : x >= cutoff} |-> buckets[m]]

\* mutant: without `del self.counters[hashtag]` for an entry left without buckets
CleanupOldBuckets_KeepsEmpty(cnt, order, last, current_minute, wm) ==
    LET cutoff == current_minute - wm
    IN IF current_minute > last
       THEN [counters |-> [h \in DOMAIN cnt |-> DropOld(cnt[h], cutoff)],
             key_order |-> order,
             last_cleanup |-> current_minute]
       ELSE [counters |-> cnt, key_order |-> order, last_cleanup |-> last]

\* the store after _cleanup_old_buckets at current_minute
CleanupOldBuckets(cnt, order, last, current_minute, wm) ==
    LET cutoff == current_minute - wm
        kept == {h \in DOMAIN cnt : DropOld(cnt[h], cutoff) # <<>>}
    IN IF current_minute > last
       THEN [counters |-> [h \in kept |-> DropOld(cnt[h], cutoff)],
             key_order |-> SelectSeq(order, LAMBDA h : h \in kept),
             last_cleanup |-> current_minute]
       ELSE [counters |-> cnt, key_order |-> order, last_cleanup |-> last]

Cleaned == CleanupOldBuckets(counters, key_order, last_cleanup, now, window_minutes)

Abs(x) == IF x < 0 THEN 0 - x ELSE x

\* a bucket weighs |count|, and 1 when its count is 0
Weight(count) == IF count = 0 THEN 1 ELSE Abs(count)

Mass(cnt) ==
    SumOver([h \in DOMAIN cnt |->
                SumOver([m \in DOMAIN cnt[h] |-> Weight(cnt[h][m])], DOMAIN cnt[h])],
            DOMAIN cnt)

\* a call, the minute it is made at and what it returns; engine_at is the minute of
\* the latest call of a TrendingEngine method, this one included (-1: none yet)
Called(op, hashtag, k, window, value) ==
    [op |-> op, hashtag |-> hashtag, k |-> k, window |-> window, value |-> value,
     at |-> now, engine_at |-> IF op = "populate" THEN ret.engine_at ELSE now]

\* ------------------------------------------------------------- increment
\* self.counters[hashtag][current_minute] += count on the two defaultdicts
AddToBucket(cnt, hashtag, minute, count) ==
    LET buckets == IF hashtag \in DOMAIN cnt THEN cnt[hashtag] ELSE <<>>
        old == IF minute \in DOMAIN buckets THEN buckets[minute] ELSE 0
        newb == [m \in (DOMAIN buckets) \cup {minute} |->
                    IF m = minute THEN old + count ELSE buckets[m]]
    IN [h \in (DOMAIN cnt) \cup {hashtag} |-> IF h = hashtag THEN newb ELSE cnt[h]]

\* a key new to the dict goes last in its order
Touch(order, hashtag) ==
    IF hashtag \in SeqSet(order) THEN order ELSE Append(order, hashtag)

Increment(hashtag, count) ==
    LET store == Cleaned
        cnt == AddToBucket(store.counters, hashtag, now, count)
    IN /\ Mass(cnt) <= MaxMass
       /\ counters' = cnt
       /\ key_order' = Touch(store.key_order, hashtag)
       /\ last_cleanup' = store.last_cleanup
       /\ ret' = Called("increment", hashtag, None, None, None)
       /\ UNCHANGED now

\* ------------------------------------------------------------- get_count
\* mutant: `window_minutes or self.window_minutes`, which also replaces an explicit 0
EffectiveWindow_Falsy(arg, wm) == IF arg # None /\ arg[1] # 0 THEN arg[1] ELSE wm

\* window_minutes if window_minutes is not None else self.window_minutes
EffectiveWindow(arg, wm) == IF arg # None THEN arg[1] ELSE wm

GetCountValue(cnt, hashtag, arg, wm, current_minute) ==
    IF hashtag \notin DOMAIN cnt THEN 0
    ELSE IF EffectiveWindow(arg, wm) <= 0 THEN 0
    ELSE WindowSum(cnt[hashtag], current_minute - EffectiveWindow(arg, wm))

GetCount(hashtag, arg) ==
    LET store == Cleaned
    IN /\ counters' = store.counters
       /\ key_order' = store.key_order
       /\ last_cleanup' = store.last_cleanup
       /\ ret' = Called("get_count", hashtag, None, arg,
                        GetCountValue(store.counters, hashtag, arg, window_minutes, now))
       /\ UNCHANGED now

\* ------------------------------------------------------------- top
\* mutant: sort key -x[1] alone, ties left in dict order
SortsBefore_NoTieBreak(a, b) == a[2] > b[2]

\* sort key (-x[1], x[0]): a sorts before b
SortsBefore(a, b) ==
    \/ a[2] > b[2]
    \/ a[2] = b[2] /\ a[1] < b[1]

RECURSIVE InsertSorted(_, _)
InsertSorted(sorted, x) ==
    IF sorted = <<>> THEN <<x>>
    ELSE IF SortsBefore(x, Head(sorted)) THEN <<x>> \o sorted
    ELSE <<Head(sorted)>> \o InsertSorted(Tail(sorted), x)

\* list.sort(key=...): stable, ascending in the key
RECURSIVE SortList(_)
SortList(lst) ==
    IF lst = <<>> THEN <<>>
    ELSE InsertSorted(SortList(SubSeq(lst, 1, Len(lst) - 1)), lst[Len(lst)])

\* hashtag_counts before the sort: dict order, totals > 0 only
HashtagCounts(cnt, order, cutoff) ==
    LET all == [i \in 1..Len(order) |-> <<order[i], WindowSum(cnt[order[i]], cutoff)>>]
    IN SelectSeq(all, LAMBDA p : p[2] > 0)

TopValue(cnt, order, k, arg, wm, current_minute) ==
    IF EffectiveWindow(arg, wm) <= 0 THEN <<>>
    ELSE Slice(SortList(HashtagCounts(cnt, order,
                                      current_minute - EffectiveWindow(arg, wm))), k)

\* mutant: the list is computed before the eviction pass instead of after it
TopResult_CleanupLast(k, arg) ==
    [store |-> Cleaned,
     value |-> TopValue(counters, key_order, k, arg, window_minutes, now)]

\* top(k, window_minutes): the store it leaves and the list it returns
TopResult(k, arg) ==
    LET store == Cleaned
    IN [store |-> store,
        value |-> TopValue(store.counters, store.key_order, k, arg, window_minutes, now)]

Top(k, arg) ==
    LET res == TopResult(k, arg)
    IN /\ counters' = res.store.counters
       /\ key_order' = res.store.key_order
       /\ last_cleanup' = res.store.last_cleanup
       /\ ret' = Called("top", None, k, arg, res.value)
       /\ UNCHANGED now

\* ------------------------------------------------------------- get_status
TotalBuckets(cnt) ==
    SumOver([h \in DOMAIN cnt |-> Cardinality(DOMAIN cnt[h])], DOMAIN cnt)

StatusValue(cnt, current_minute, wm) ==
    [total_hashtags |-> Cardinality(DOMAIN cnt),
     total_buckets |-> TotalBuckets(cnt),
     current_minute |-> current_minute,
     window_minutes |-> wm]

GetStatus ==
    LET store == Cleaned
    IN /\ counters' = store.counters
       /\ key_order' = store.key_order
       /\ last_cleanup' = store.last_cleanup
       /\ ret' = Called("get_status", None, None, None,
                        StatusValue(store.counters, now, window_minutes))
       /\ UNCHANGED now

\* ------------------------------------------------------------- populate_trending_from_db
\* What the query can return, grouped as minute_hashtag_counts: no post, one post,
\* or one post for each hashtag in the same minute; none created before
\* utcnow() - minutes_back nor after now.
QueryResults(minutes_back) ==
    LET none == [h \in Hashtags |-> <<>>]
        recent == PostMinutes \cap ((now - minutes_back)..now)
    IN {none} \cup
       {[none EXCEPT ![h] = [x \in {m} |-> 1]] : h \in Hashtags, m \in recent} \cup
       {[h \in Hashtags |-> [x \in {m} |-> 1]] : m \in recent}

\* mutant: trending_engine.counters[hashtag_name][minute_timestamp] += count
SetBuckets_Adds(cnt, found) ==
    LET hit == {h \in Hashtags : found[h] # <<>>}
    IN [h \in (DOMAIN cnt) \cup hit |->
          [m \in (IF h \in DOMAIN cnt THEN DOMAIN cnt[h] ELSE {}) \cup DOMAIN found[h] |->
              (IF h \in DOMAIN cnt /\ m \in DOMAIN cnt[h] THEN cnt[h][m] ELSE 0)
              + (IF m \in DOMAIN found[h] THEN found[h][m] ELSE 0)]]

\* trending_engine.counters[hashtag_name][minute_timestamp] = count
SetBuckets(cnt, found) ==
    LET hit == {h \in Hashtags : found[h] # <<>>}
    IN [h \in (DOMAIN cnt) \cup hit |->
          [m \in (IF h \in DOMAIN cnt THEN DOMAIN cnt[h] ELSE {}) \cup DOMAIN found[h] |->
              IF m \in DOMAIN found[h] THEN found[h][m] ELSE cnt[h][m]]]

PopulateTrendingFromDb(minutes_back) ==
    \E found \in QueryResults(minutes_back) :
        LET cnt == SetBuckets(counters, found)
            fresh == {h \in Hashtags : found[h] # <<>>} \ DOMAIN counters
        IN /\ Mass(cnt) <= MaxMass
           /\ counters' = cnt
           \* the rows come back in no stated order
           /\ \E tail \in Perms(fresh) : key_order' = key_order \o tail
           /\ ret' = Called("populate", None, None, None, None)
           /\ UNCHANGED <<now, last_cleanup>>

\* the wall clock reaches the next minute
Tick ==
    /\ now < MaxMinute
    /\ now' = now + 1
    /\ UNCHANGED <<counters, key_order, last_cleanup, ret>>

\* ------------------------------------------------------------- the engine, one call at a time
\* TrendingEngine.__init__ at minute 0
Init ==
    /\ now = 0
    /\ counters = <<>>
    /\ key_order = <<>>
    /\ last_cleanup = 0
    /\ ret = [op |-> "init", hashtag |-> None, k |-> None, window |-> None,
              value |-> None, at |-> 0, engine_at |-> -1]
    /\ ledger = [h \in Hashtags |-> [m \in Minutes |-> 0]]
    /\ ThreadsInit
    /\ AnalyzerIdle
    /\ RestIdle

\* what a call on the engine leaves alone
others == <<ledger, th, analyzerVars, restVars>>

Next ==
    \/ Tick /\ UNCHANGED others
    \/ \E h \in Hashtags, a \in Amounts : Increment(h, a) /\ UNCHANGED others
    \/ \E h \in Hashtags, w \in WindowArgs : GetCount(h, w) /\ UNCHANGED others
    \/ \E k \in KArgs, w \in WindowArgs : Top(k, w) /\ UNCHANGED others
    \/ GetStatus /\ UNCHANGED others
    \/ \E mb \in MinutesBackArgs : PopulateTrendingFromDb(mb) /\ UNCHANGED others

vars == <<trendVars, ledger, th, analyzerVars, restVars>>

Spec == Init /\ [][Next]_vars

\* ------------------------------------------------------------- increments and reads only
\* the engine without the database sync; the ledger keeps every amount incremented
IncrementLogged(hashtag, count) ==
    /\ Increment(hashtag, count)
    /\ ledger' = [ledger EXCEPT ![hashtag][now] = @ + count]
    /\ UNCHANGED <<th, analyzerVars, restVars>>

NextInc ==
    \/ Tick /\ UNCHANGED others
    \/ \E h \in Hashtags, a \in Amounts : IncrementLogged(h, a)
    \/ \E h \in Hashtags, w \in WindowArgs : GetCount(h, w) /\ UNCHANGED others
    \/ \E k \in KArgs, w \in WindowArgs : Top(k, w) /\ UNCHANGED others
    \/ GetStatus /\ UNCHANGED others

SpecInc == Init /\ [][NextInc]_vars

\* ------------------------------------------------------------- increments and the sync
\* increment and the database sync on one engine, every increment
\* kept in the ledger; the amounts in the ledger never add up to more than MaxMass
LedgerMass(l) ==
    SumOver([h \in Hashtags |-> SumOver([m \in Minutes |-> Abs(l[h][m])], Minutes)],
            Hashtags)

NextSync ==
    \/ Tick /\ UNCHANGED others
    \/ \E h \in Hashtags, a \in Amounts :
          IncrementLogged(h, a) /\ LedgerMass(ledger') <= MaxMass
    \/ \E mb \in MinutesBackArgs : PopulateTrendingFromDb(mb) /\ UNCHANGED others

SpecSync == Init /\ [][NextSync]_vars

\* ------------------------------------------------------------- two threads on one engine
\* The engine takes no lock. Each thread makes one call and goes through it one
\* access to the shared dicts at a time; the interpreter may switch threads between
\* any two of them. A thread's local `buckets` is a reference: attached (att) while
\* the dict it names is counters[cur], and its own copy (priv) once that entry was
\* deleted from counters. Iterating a dict takes two steps, iter() and the
\* end of the loop, and raises RuntimeError when the dict changed size in between.
ConcAmounts == {1}
ConcWindowArgs == {None, Some(0)}

\* the dict a thread's reference names
Deref(t) == IF th[t].att THEN counters[th[t].cur] ELSE th[t].priv

\* d[minute] = value on a dict
Store(d, minute, value) ==
    [m \in (DOMAIN d) \cup {minute} |-> IF m = minute THEN value ELSE d[m]]

\* del d[minute]
Remove(d, minute) == [m \in (DOMAIN d) \ {minute} |-> d[m]]

\* thread t moves on with the record r, its dict replaced by d
WriteRef(t, d, r) ==
    IF th[t].att
    THEN /\ counters' = [counters EXCEPT ![th[t].cur] = d]
         /\ th' = [th EXCEPT ![t] = r]
    ELSE /\ counters' = counters
         /\ th' = [th EXCEPT ![t] = [r EXCEPT !.priv = d]]

\* self.counters[hashtag] on the defaultdict: the entry is made when missing;
\* thread t then holds it and moves to pc
GetItem(t, hashtag, pc) ==
    /\ counters' = IF hashtag \in DOMAIN counters THEN counters
                   ELSE [h \in (DOMAIN counters) \cup {hashtag} |->
                            IF h = hashtag THEN <<>> ELSE counters[h]]
    /\ key_order' = Touch(key_order, hashtag)
    /\ th' = [th EXCEPT ![t] = [@ EXCEPT !.cur = hashtag, !.att = TRUE, !.pc = pc]]

\* the first statement of the method after _cleanup_old_buckets returns
Body(t) == IF th[t].op = "increment" THEN "inc_get" ELSE "gc_check"

Call(t, op, hashtag, count, window) ==
    /\ th[t].pc = "idle"
    /\ th' = [th EXCEPT ![t] = [IdleThread EXCEPT !.pc = "cleanup_check", !.op = op,
                                    !.hashtag = hashtag, !.count = count,
                                    !.window = window]]
    /\ UNCHANGED <<counters, key_order, last_cleanup>>

\* if current_minute > self._last_cleanup
CleanupCheck(t) ==
    /\ th[t].pc = "cleanup_check"
    /\ th' = [th EXCEPT ![t].pc = IF now > last_cleanup THEN "cleanup_keys" ELSE Body(t)]
    /\ UNCHANGED <<counters, key_order, last_cleanup>>

\* list(self.counters.keys())
CleanupKeys(t) ==
    /\ th[t].pc = "cleanup_keys"
    /\ th' = [th EXCEPT ![t] = [@ EXCEPT !.keys = key_order, !.pc = "cleanup_next"]]
    /\ UNCHANGED <<counters, key_order, last_cleanup>>

\* for hashtag in ...: buckets = self.counters[hashtag]; then iter(buckets)
CleanupNext(t) ==
    /\ th[t].pc = "cleanup_next"
    /\ IF th[t].keys = <<>>
       THEN /\ th' = [th EXCEPT ![t].pc = "cleanup_mark"]
            /\ UNCHANGED <<counters, key_order>>
       ELSE LET h == Head(th[t].keys)
                size == IF h \in DOMAIN counters THEN Cardinality(DOMAIN counters[h]) ELSE 0
            IN /\ counters' = IF h \in DOMAIN counters THEN counters
                              ELSE [x \in (DOMAIN counters) \cup {h} |->
                                       IF x = h THEN <<>> ELSE counters[x]]
               /\ key_order' = Touch(key_order, h)
               /\ th' = [th EXCEPT ![t] = [@ EXCEPT !.cur = h, !.att = TRUE, !.v = size,
                                               !.keys = Tail(@), !.pc = "cleanup_scan"]]
    /\ UNCHANGED last_cleanup

\* minutes in ascending order
RECURSIVE Ascending(_)
Ascending(S) ==
    IF S = {} THEN <<>>
    ELSE LET m == CHOOSE x \in S : \A y \in S : x <= y
         IN <<m>> \o Ascending(S \ {m})

\* old_minutes = [minute for minute in buckets if minute < cutoff]
CleanupScan(t) ==
    /\ th[t].pc = "cleanup_scan"
    /\ LET d == Deref(t)
           old_minutes == Ascending({m \in DOMAIN d : m < now - window_minutes})
       IN th' = [th EXCEPT ![t] =
                    IF Cardinality(DOMAIN d) # th[t].v
                    THEN [@ EXCEPT !.pc = "raised"]
                    ELSE [@ EXCEPT !.old = old_minutes,
                                   !.pc = IF old_minutes = <<>> THEN "cleanup_empty"
                                          ELSE "cleanup_del"]]
    /\ UNCHANGED <<counters, key_order, last_cleanup>>

\* del buckets[minute]; KeyError when another thread deleted it first
CleanupDel(t) ==
    /\ th[t].pc = "cleanup_del"
    /\ LET d == Deref(t)
           minute == Head(th[t].old)
       IN IF minute \in DOMAIN d
          THEN WriteRef(t, Remove(d, minute),
                        [th[t] EXCEPT !.old = Tail(@),
                                      !.pc = IF Tail(th[t].old) = <<>> THEN "cleanup_empty"
                                             ELSE "cleanup_del"])
          ELSE /\ th' = [th EXCEPT ![t].pc = "raised"]
               /\ UNCHANGED counters
    /\ UNCHANGED <<key_order, last_cleanup>>

\* if not buckets
CleanupEmpty(t) ==
    /\ th[t].pc = "cleanup_empty"
    /\ th' = [th EXCEPT ![t].pc = IF Deref(t) = <<>> THEN "cleanup_delkey"
                                  ELSE "cleanup_next"]
    /\ UNCHANGED <<counters, key_order, last_cleanup>>

\* del self.counters[hashtag]: whatever dict is the entry now goes, and stays with
\* the threads that hold it; KeyError when the entry is gone already
CleanupDelKey(t) ==
    /\ th[t].pc = "cleanup_delkey"
    /\ LET h == th[t].cur
       IN IF h \in DOMAIN counters
          THEN /\ counters' = [x \in (DOMAIN counters) \ {h} |-> counters[x]]
               /\ key_order' = SelectSeq(key_order, LAMBDA x : x # h)
               /\ th' = [u \in Threads |->
                            LET r == IF th[u].att /\ th[u].cur = h
                                     THEN [th[u] EXCEPT !.att = FALSE, !.priv = counters[h]]
                                     ELSE th[u]
                            IN IF u = t THEN [r EXCEPT !.pc = "cleanup_next"] ELSE r]
          ELSE /\ th' = [th EXCEPT ![t].pc = "raised"]
               /\ UNCHANGED <<counters, key_order>>
    /\ UNCHANGED last_cleanup

\* self._last_cleanup = current_minute
CleanupMark(t) ==
    /\ th[t].pc = "cleanup_mark"
    /\ last_cleanup' = now
    /\ th' = [th EXCEPT ![t].pc = Body(t)]
    /\ UNCHANGED <<counters, key_order>>

\* self.counters[hashtag] of line 73
IncGet(t) ==
    /\ th[t].pc = "inc_get"
    /\ GetItem(t, th[t].hashtag, "inc_read")
    /\ UNCHANGED last_cleanup

\* the read half of += : a missing bucket is made with 0 by the defaultdict
IncRead(t) ==
    /\ th[t].pc = "inc_read"
    /\ LET d == Deref(t)
           value == IF now \in DOMAIN d THEN d[now] ELSE 0
       IN WriteRef(t, Store(d, now, value),
                   [th[t] EXCEPT !.v = value, !.pc = "inc_write"])
    /\ UNCHANGED <<key_order, last_cleanup>>

\* the write half of += : the value read, plus count
IncWrite(t) ==
    /\ th[t].pc = "inc_write"
    /\ WriteRef(t, Store(Deref(t), now, th[t].v + th[t].count),
                [th[t] EXCEPT !.pc = "done"])
    /\ UNCHANGED <<key_order, last_cleanup>>

\* if hashtag not in self.counters: return 0; if window <= 0: return 0
GcCheck(t) ==
    /\ th[t].pc = "gc_check"
    /\ th' = [th EXCEPT ![t] =
                 IF \/ th[t].hashtag \notin DOMAIN counters
                    \/ EffectiveWindow(th[t].window, window_minutes) <= 0
                 THEN [@ EXCEPT !.result = 0, !.pc = "done"]
                 ELSE [@ EXCEPT !.pc = "gc_get"]]
    /\ UNCHANGED <<counters, key_order, last_cleanup>>

\* self.counters[hashtag].items() of line 101
GcGet(t) ==
    /\ th[t].pc = "gc_get"
    /\ GetItem(t, th[t].hashtag, "gc_sum")
    /\ UNCHANGED last_cleanup

\* the summing loop of get_count
GcSum(t) ==
    /\ th[t].pc = "gc_sum"
    /\ LET d == Deref(t)
           cutoff == now - EffectiveWindow(th[t].window, window_minutes)
       IN th' = [th EXCEPT ![t] =
                    IF Cardinality(DOMAIN d) # th[t].v
                    THEN [@ EXCEPT !.pc = "raised"]
                    ELSE [@ EXCEPT !.result = WindowSum(d, cutoff), !.pc = "done"]]
    /\ UNCHANGED <<counters, key_order, last_cleanup>>

\* an engine that is new at minute 0, or one that got increments at minute 0, one
\* to each key of a non-empty set, and no call since, at minute MaxMinute
ConcStarts ==
    {[now |-> 0, counters |-> <<>>, key_order |-> <<>>]} \cup
    {[now |-> MaxMinute, counters |-> [h \in SeqSet(order) |-> [m \in {0} |-> 1]],
      key_order |-> order] : order \in {<<1>>, <<2>>, <<1, 2>>}}

InitConc ==
    /\ \E s \in ConcStarts :
          /\ now = s.now
          /\ counters = s.counters
          /\ key_order = s.key_order
    /\ last_cleanup = 0
    /\ ret = [op |-> "init", hashtag |-> None, k |-> None, window |-> None,
              value |-> None, at |-> 0, engine_at |-> -1]
    /\ ledger = [h \in Hashtags |-> [m \in Minutes |-> 0]]
    /\ ThreadsInit
    /\ AnalyzerIdle
    /\ RestIdle

\* what a step of a thread leaves alone
idle == <<now, ret, ledger, analyzerVars, restVars>>

NextConc ==
    \/ \E t \in Threads, h \in Hashtags, a \in ConcAmounts :
          Call(t, "increment", h, a, None) /\ UNCHANGED idle
    \/ \E t \in Threads, h \in Hashtags, w \in ConcWindowArgs :
          Call(t, "get_count", h, 0, w) /\ UNCHANGED idle
    \/ \E t \in Threads : CleanupCheck(t) /\ UNCHANGED idle
    \/ \E t \in Threads : CleanupKeys(t) /\ UNCHANGED idle
    \/ \E t \in Threads : CleanupNext(t) /\ UNCHANGED idle
    \/ \E t \in Threads : CleanupScan(t) /\ UNCHANGED idle
    \/ \E t \in Threads : CleanupDel(t) /\ UNCHANGED idle
    \/ \E t \in Threads : CleanupEmpty(t) /\ UNCHANGED idle
    \/ \E t \in Threads : CleanupDelKey(t) /\ UNCHANGED idle
    \/ \E t \in Threads : CleanupMark(t) /\ UNCHANGED idle
    \/ \E t \in Threads : IncGet(t) /\ UNCHANGED idle
    \/ \E t \in Threads : IncRead(t) /\ UNCHANGED idle
    \/ \E t \in Threads : IncWrite(t) /\ UNCHANGED idle
    \/ \E t \in Threads : GcCheck(t) /\ UNCHANGED idle
    \/ \E t \in Threads : GcGet(t) /\ UNCHANGED idle
    \/ \E t \in Threads : GcSum(t) /\ UNCHANGED idle

SpecConc == InitConc /\ [][NextConc]_vars

\* an engine that is new at minute 0 and gets no call
EngineIdle ==
    /\ now = 0 /\ counters = <<>> /\ key_order = <<>> /\ last_cleanup = 0
    /\ ret = [op |-> "init", hashtag |-> None, k |-> None, window |-> None,
              value |-> None, at |-> 0, engine_at |-> -1]
    /\ ledger = [h \in Hashtags |-> [m \in Minutes |-> 0]]

\* ------------------------------------------------------------- CommentAnalyzer
MaxComments == 3      \* a post has at most MaxComments comments

\* parent_id None is written 0; the ids of the rows are positive
NoParent == 0
Upvotes == {0, 10}
\* CommentAnalyzer(viral_min_upvotes=10), the default
viral_min_upvotes == 10
\* CommentAnalyzer(viral_min_replies=...): the default 3, and 2
ViralMinReplies == {2, 3}
\* post 1 exists and owns the rows of comments; post 2 does not exist
PostIds == {1, 2}

\* mutant: the post is not looked up
PostExists_Unchecked(post_id) == TRUE

\* db.query(Post).filter(Post.id == post_id).first() finds a row
PostExists(post_id) == post_id = 1

\* the tables a post can have: ids 1..n in query order, each parent_id None, the
\* id of a row (its own included) or n + 1, the id of no row
CommentLists ==
    UNION {{[i \in 1..n |-> [id |-> i, parent_id |-> p[i], upvotes |-> u[i]]] :
               p \in [1..n -> 0..(n + 1)], u \in [1..n -> Upvotes]} : n \in 0..MaxComments}

Max(a, b) == IF a >= b THEN a ELSE b
Min(a, b) == IF a <= b THEN a ELSE b

\* [c for c in comments if c.parent_id == comment.id]
ChildrenOf(cs, id) == SelectSeq(cs, LAMBDA c : c.parent_id = id)

\* self._children_cache after the precompute loop
PrecomputeChildren(cs) ==
    [id \in {cs[i].id : i \in 1..Len(cs)} |-> ChildrenOf(cs, id)]

\* _calculate_depth, and the max it takes over a list of comments; both hand back
\* the depth and the _depth_cache they leave
RECURSIVE CalculateDepth(_, _, _, _), MaxDepthOver(_, _, _, _)
\* mutant: the depth counts the replies below a comment, 0 for a leaf
CalculateDepth_CountsEdges(comment, children, cache, enabled) ==
    LET kids == IF comment.id \in DOMAIN children THEN children[comment.id] ELSE <<>>
        below == MaxDepthOver(kids, children, cache, enabled)
    IN [depth |-> IF kids = <<>> THEN 0 ELSE 1 + below.depth, cache |-> below.cache]

CalculateDepth(comment, children, cache, enabled) ==
    IF enabled /\ comment.id \in DOMAIN cache
    THEN [depth |-> cache[comment.id], cache |-> cache]
    ELSE LET kids == IF comment.id \in DOMAIN children THEN children[comment.id] ELSE <<>>
             below == MaxDepthOver(kids, children, cache, enabled)
             depth == IF kids = <<>> THEN 1 ELSE 1 + below.depth
         IN [depth |-> depth,
             cache |-> IF enabled
                       THEN [i \in (DOMAIN below.cache) \cup {comment.id} |->
                                IF i = comment.id THEN depth ELSE below.cache[i]]
                       ELSE below.cache]

MaxDepthOver(list, children, cache, enabled) ==
    IF list = <<>> THEN [depth |-> 0, cache |-> cache]
    ELSE LET first == CalculateDepth(Head(list), children, cache, enabled)
             rest == MaxDepthOver(Tail(list), children, first.cache, enabled)
         IN [depth |-> Max(first.depth, rest.depth), cache |-> rest.cache]

\* mutant: the traversal starts from every comment
RootComments_All(cs) == cs

\* mutant: every comment without a parent in the list counts as a root
RootComments_Parentless(cs) ==
    SelectSeq(cs, LAMBDA c : \A i \in 1..Len(cs) : cs[i].id # c.parent_id)

\* root_comments = [c for c in comments if c.parent_id is None]
RootComments(cs) == SelectSeq(cs, LAMBDA c : c.parent_id = NoParent)

\* analyze_depth on a post that exists, from cleared caches: the analysis and the
\* caches it leaves; the float average is kept as numerator over denominator
DepthAnalysis(post_id, cs, enabled) ==
    IF cs = <<>>
    THEN [value |-> [post_id |-> post_id, max_depth |-> 0, total_comments |-> 0,
                     total_replies |-> 0,
                     average_replies_per_comment |-> [num |-> 0, den |-> 1]],
          depth_cache |-> <<>>, children_cache |-> <<>>]
    ELSE LET children == PrecomputeChildren(cs)
             roots == RootComments(cs)
             deepest == MaxDepthOver(roots, children, <<>>, enabled)
             reply_counts == [i \in 1..Len(cs) |-> Len(children[cs[i].id])]
         IN [value |-> [post_id |-> post_id, max_depth |-> deepest.depth,
                        total_comments |-> Len(cs),
                        total_replies |-> Len(cs) - Len(roots),
                        average_replies_per_comment |->
                            [num |-> SeqSum(reply_counts), den |-> Len(cs)]],
             depth_cache |-> deepest.cache, children_cache |-> children]

AnalyzeDepth(post_id) ==
    /\ IF ~PostExists(post_id)
       THEN \* ValueError("Post ... not found"), after the caches were cleared
            /\ depth_cache' = <<>>
            /\ children_cache' = <<>>
            /\ analysis' = [op |-> "analyze_depth", post_id |-> post_id,
                            raised |-> TRUE, value |-> None, queries |-> <<"post">>]
       ELSE LET a == DepthAnalysis(post_id, comments, cache_enabled)
            IN /\ depth_cache' = a.depth_cache
               /\ children_cache' = a.children_cache
               /\ analysis' = [op |-> "analyze_depth", post_id |-> post_id,
                               raised |-> FALSE, value |-> a.value,
                               queries |-> <<"post", "comments">>]
    /\ UNCHANGED <<comments, cache_enabled, viral_min_replies>>

\* ------------------------------------------------------------- detect_viral_chains
\* self._children_cache.get(comment.id, [])
CachedChildren(children, id) == IF id \in DOMAIN children THEN children[id] ELSE <<>>

\* mutant: every comment counts as viral
IsViralComment_Always(comment, children, min_replies) == TRUE

\* _is_viral_comment
IsViralComment(comment, children, min_replies) ==
    \/ Len(CachedChildren(children, comment.id)) >= min_replies
    \/ comment.upvotes >= viral_min_upvotes

\* the chains, in the order in which the backtracking records them
RECURSIVE FindViralChains(_, _, _, _), ChainsBelow(_, _, _, _)
\* mutant: a chain is recorded only where it cannot be continued
FindViralChains_LeavesOnly(comment, children, min_replies, current_chain) ==
    LET new_chain == Append(current_chain, comment)
        viral_children == SelectSeq(CachedChildren(children, comment.id),
                                    LAMBDA c : IsViralComment(c, children, min_replies))
    IN IF viral_children = <<>>
       THEN (IF Len(new_chain) >= 2 THEN <<new_chain>> ELSE <<>>)
       ELSE ChainsBelow(viral_children, children, min_replies, new_chain)

\* mutant: a chain of one comment is recorded too
FindViralChains_Singles(comment, children, min_replies, current_chain) ==
    LET new_chain == Append(current_chain, comment)
        viral_children == SelectSeq(CachedChildren(children, comment.id),
                                    LAMBDA c : IsViralComment(c, children, min_replies))
    IN ChainsBelow(viral_children, children, min_replies, new_chain) \o <<new_chain>>

\* _find_viral_chains
FindViralChains(comment, children, min_replies, current_chain) ==
    LET new_chain == Append(current_chain, comment)
        viral_children == SelectSeq(CachedChildren(children, comment.id),
                                    LAMBDA c : IsViralComment(c, children, min_replies))
        own == IF Len(new_chain) >= 2 THEN <<new_chain>> ELSE <<>>
    IN IF viral_children = <<>> THEN own
       ELSE ChainsBelow(viral_children, children, min_replies, new_chain) \o own

\* for child in viral_children: chains.extend(self._find_viral_chains(child, ...))
ChainsBelow(list, children, min_replies, chain) ==
    IF list = <<>> THEN <<>>
    ELSE FindViralChains(Head(list), children, min_replies, chain)
         \o ChainsBelow(Tail(list), children, min_replies, chain)

\* all_chains: the chains of every viral root, roots in list order
RECURSIVE AllChains(_, _, _)
AllChains(roots, children, min_replies) ==
    IF roots = <<>> THEN <<>>
    ELSE (IF IsViralComment(Head(roots), children, min_replies)
          THEN FindViralChains(Head(roots), children, min_replies, <<>>)
          ELSE <<>>)
         \o AllChains(Tail(roots), children, min_replies)

\* mutant: a later chain of the same length replaces the longest one
RECURSIVE LongestChain_Last(_, _)
LongestChain_Last(chains, longest) ==
    IF chains = <<>> THEN longest
    ELSE LongestChain_Last(Tail(chains),
                           IF Len(Head(chains)) >= Len(longest) THEN Head(chains)
                           ELSE longest)

\* if len(chain) > len(longest_chain): longest_chain = chain
RECURSIVE LongestChain(_, _)
LongestChain(chains, longest) ==
    IF chains = <<>> THEN longest
    ELSE LongestChain(Tail(chains),
                      IF Len(Head(chains)) > Len(longest) THEN Head(chains) ELSE longest)

\* what detect_viral_chains returns from the roots and the children index
ViralValue(post_id, roots, children, min_replies) ==
    LET all_chains == AllChains(roots, children, min_replies)
        longest_chain == LongestChain(all_chains, <<>>)
    IN [post_id |-> post_id,
        longest_chain_length |-> Len(longest_chain),
        longest_chain_comments |-> [i \in 1..Len(longest_chain) |-> longest_chain[i].id],
        total_viral_chains |-> Len(all_chains),
        viral_criteria_met |-> Len(longest_chain) > 0]

\* detect_viral_chains on a post that exists: the analysis and the children cache
\* it leaves (the cache is left as it was when the post has no comment)
ViralAnalysis(post_id, cs, min_replies, old_children) ==
    IF cs = <<>>
    THEN [value |-> [post_id |-> post_id, longest_chain_length |-> 0,
                     longest_chain_comments |-> <<>>, total_viral_chains |-> 0,
                     viral_criteria_met |-> FALSE],
          children_cache |-> old_children]
    ELSE LET children == PrecomputeChildren(cs)
         IN [value |-> ViralValue(post_id, RootComments(cs), children, min_replies),
             children_cache |-> children]

DetectViralChains(post_id) ==
    /\ IF ~PostExists(post_id)
       THEN \* ValueError("Post ... not found")
            /\ children_cache' = children_cache
            /\ analysis' = [op |-> "detect_viral_chains", post_id |-> post_id,
                            raised |-> TRUE, value |-> None, queries |-> <<"post">>]
       ELSE LET a == ViralAnalysis(post_id, comments, viral_min_replies, children_cache)
            IN /\ children_cache' = a.children_cache
               /\ analysis' = [op |-> "detect_viral_chains", post_id |-> post_id,
                               raised |-> FALSE, value |-> a.value,
                               queries |-> <<"post", "comments">>]
    /\ UNCHANGED <<comments, cache_enabled, viral_min_replies, depth_cache>>

\* ------------------------------------------------------------- get_comment_tree_structure
\* build_tree_node; body, created_at and user_id of a comment are not modelled
\* mutant: a node without its replies
BuildTreeNode_NoChildren(cs, comment) ==
    [id |-> comment.id, upvotes |-> comment.upvotes, children |-> <<>>]

RECURSIVE BuildTreeNode(_, _), BuildTreeNodes(_, _)
BuildTreeNode(cs, comment) ==
    [id |-> comment.id, upvotes |-> comment.upvotes,
     children |-> BuildTreeNodes(cs, ChildrenOf(cs, comment.id))]

\* [build_tree_node(child) for child in children]
BuildTreeNodes(cs, list) ==
    IF list = <<>> THEN <<>>
    ELSE <<BuildTreeNode(cs, Head(list))>> \o BuildTreeNodes(cs, Tail(list))

TreeStructure(post_id, cs) ==
    [post_id |-> post_id,
     comments |-> IF cs = <<>> THEN <<>> ELSE BuildTreeNodes(cs, RootComments(cs))]

GetCommentTreeStructure(post_id) ==
    /\ IF ~PostExists(post_id)
       THEN analysis' = [op |-> "get_comment_tree_structure", post_id |-> post_id,
                         raised |-> TRUE, value |-> None, queries |-> <<"post">>]
       ELSE analysis' = [op |-> "get_comment_tree_structure", post_id |-> post_id,
                         raised |-> FALSE, value |-> TreeStructure(post_id, comments),
                         queries |-> <<"post", "comments">>]
    /\ UNCHANGED <<comments, cache_enabled, viral_min_replies, depth_cache, children_cache>>

\* an analyzer and a comments table, before any analysis
InitComments ==
    /\ comments \in CommentLists
    /\ cache_enabled \in BOOLEAN
    /\ viral_min_replies \in ViralMinReplies
    /\ depth_cache = <<>>
    /\ children_cache = <<>>
    /\ analysis = [op |-> "init", post_id |-> 0, raised |-> FALSE, value |-> None,
                   queries |-> <<>>]
    /\ EngineIdle
    /\ ThreadsInit
    /\ RestIdle

NextComments ==
    \/ \E post_id \in PostIds :
          AnalyzeDepth(post_id) /\ UNCHANGED <<trendVars, ledger, th, restVars>>
    \/ \E post_id \in PostIds :
          DetectViralChains(post_id) /\ UNCHANGED <<trendVars, ledger, th, restVars>>
    \/ \E post_id \in PostIds :
          GetCommentTreeStructure(post_id) /\ UNCHANGED <<trendVars, ledger, th, restVars>>

SpecComments == InitComments /\ [][NextComments]_vars

\* ------------------------------------------------------------- the traversals, call by call
\* The recursion of _calculate_depth and _find_viral_chains, one call or return
\* at a time: stack holds a frame for every call that has not returned, with the
\* children it has still to descend into. The interpreter gives up with a
\* RecursionError when the calls nest deeper than its limit; the limit stands just
\* above the longest nesting the comments of one list can make without repeating.
RecursionLimit == MaxComments + 1

\* the frame of a call on comment: for detect_viral_chains only the viral
\* children are descended into
Frame(op, comment) ==
    LET children == PrecomputeChildren(comments)
        kids == CachedChildren(children, comment.id)
    IN [id |-> comment.id,
        kids |-> IF op = "analyze_depth" THEN kids
                 ELSE SelectSeq(kids, LAMBDA c : IsViralComment(c, children, viral_min_replies))]

\* the call on comment goes onto the stack, unless the depth memo answers it
Enter(op, st, memo, comment) ==
    IF op = "analyze_depth" /\ cache_enabled /\ comment.id \in memo THEN st
    ELSE Append(st, Frame(op, comment))

\* the analysis starts: the roots it will walk from
WalkBegin(op) ==
    /\ walk.pc = "start"
    /\ comments # <<>>
    /\ LET children == PrecomputeChildren(comments)
           roots == RootComments(comments)
       IN walk' = [op |-> op, pc |-> "walking", stack |-> <<>>, memo |-> {},
                   roots |-> IF op = "analyze_depth" THEN roots
                             ELSE SelectSeq(roots, LAMBDA c :
                                      IsViralComment(c, children, viral_min_replies))]

\* for root_comment in root_comments: the call on the next root
WalkRoot ==
    /\ walk.pc = "walking" /\ walk.stack = <<>> /\ walk.roots # <<>>
    /\ walk' = [walk EXCEPT !.roots = Tail(@),
                            !.stack = Enter(walk.op, <<>>, walk.memo, Head(walk.roots))]

\* the recursive call on the next child of the innermost call
WalkDown ==
    /\ walk.pc = "walking" /\ walk.stack # <<>>
    /\ LET n == Len(walk.stack)
           top == walk.stack[n]
       IN /\ top.kids # <<>>
          /\ IF n >= RecursionLimit
             THEN walk' = [walk EXCEPT !.pc = "recursion_error"]
             ELSE walk' = [walk EXCEPT !.stack =
                              Enter(walk.op, [walk.stack EXCEPT ![n].kids = Tail(@)],
                                    walk.memo, Head(top.kids))]

\* the innermost call returns; _calculate_depth memoizes when the cache is on
WalkUp ==
    /\ walk.pc = "walking" /\ walk.stack # <<>>
    /\ LET n == Len(walk.stack)
           top == walk.stack[n]
       IN /\ top.kids = <<>>
          /\ walk' = [walk EXCEPT !.stack = SubSeq(walk.stack, 1, n - 1),
                                  !.memo = IF walk.op = "analyze_depth" /\ cache_enabled
                                           THEN @ \cup {top.id} ELSE @]

\* every root is done: the analysis returns
WalkEnd ==
    /\ walk.pc = "walking" /\ walk.stack = <<>> /\ walk.roots = <<>>
    /\ walk' = [walk EXCEPT !.pc = "returned"]

InitWalk ==
    /\ comments \in CommentLists \ {<<>>}
    /\ cache_enabled \in BOOLEAN
    /\ viral_min_replies \in ViralMinReplies
    /\ depth_cache = <<>>
    /\ children_cache = <<>>
    /\ analysis = [op |-> "init", post_id |-> 0, raised |-> FALSE, value |-> None,
                   queries |-> <<>>]
    /\ EngineIdle
    /\ ThreadsInit
    /\ WalkIdle
    /\ SharedIdle
    /\ RecoIdle
    /\ RetryIdle
    /\ EngIdle

walkOthers == <<trendVars, ledger, th, analyzerVars, an, reco, call, eng>>

NextWalk ==
    \/ \E op \in {"analyze_depth", "detect_viral_chains"} :
          WalkBegin(op) /\ UNCHANGED walkOthers
    \/ WalkRoot /\ UNCHANGED walkOthers
    \/ WalkDown /\ UNCHANGED walkOthers
    \/ WalkUp /\ UNCHANGED walkOthers
    \/ WalkEnd /\ UNCHANGED walkOthers

\* a call that can take a step takes it
SpecWalk == InitWalk /\ [][NextWalk]_vars /\ WF_vars(NextWalk)

\* ------------------------------------------------------------- two analyses on one analyzer
\* The routes run in a thread pool and all call the module-level comment_analyzer,
\* which takes no lock. Each thread makes one call on post 1 or on the post that
\* does not exist; a step is one statement on the shared caches, or one root's
\* traversal, and threads switch between steps.
SharedLists == {cs \in CommentLists : Len(cs) <= 2}

IdleAnalysis ==
    [pc |-> "idle", op |-> "none", post_id |-> 0, i |-> 0, roots |-> <<>>,
     max_depth |-> 0, result |-> None]

\* d[id] = list
PutChildren(d, id, list) ==
    [x \in (DOMAIN d) \cup {id} |-> IF x = id THEN list ELSE d[x]]

Begin(t, op, post_id) ==
    /\ an[t].pc = "idle"
    /\ an' = [an EXCEPT ![t] = [IdleAnalysis EXCEPT
                 !.pc = IF op = "analyze_depth" THEN "clear" ELSE "fetch",
                 !.op = op, !.post_id = post_id]]
    /\ UNCHANGED <<depth_cache, children_cache>>

\* self._depth_cache.clear(); self._children_cache.clear()
AnalyzeClear(t) ==
    /\ an[t].pc = "clear"
    /\ depth_cache' = <<>>
    /\ children_cache' = <<>>
    /\ an' = [an EXCEPT ![t].pc = "fetch"]

\* the post lookup, the comments query, the early return and root_comments
AnalysisFetch(t) ==
    /\ an[t].pc = "fetch"
    /\ an' = [an EXCEPT ![t] =
                 IF ~PostExists(an[t].post_id) THEN [@ EXCEPT !.pc = "raised"]
                 ELSE IF comments = <<>>
                 THEN [@ EXCEPT !.pc = "returned",
                                !.result = IF an[t].op = "analyze_depth"
                                           THEN DepthAnalysis(an[t].post_id, <<>>,
                                                              cache_enabled).value
                                           ELSE ViralAnalysis(an[t].post_id, <<>>,
                                                              viral_min_replies, <<>>).value]
                 ELSE [@ EXCEPT !.pc = IF an[t].op = "analyze_depth" THEN "index"
                                       ELSE "clear_children",
                                !.i = 1, !.roots = RootComments(comments)]]
    /\ UNCHANGED <<depth_cache, children_cache>>

\* self._children_cache.clear() of detect_viral_chains
ViralClear(t) ==
    /\ an[t].pc = "clear_children"
    /\ children_cache' = <<>>
    /\ an' = [an EXCEPT ![t].pc = "index"]
    /\ UNCHANGED depth_cache

\* self._children_cache[comment.id] = children, for one comment of the loop
IndexStep(t) ==
    /\ an[t].pc = "index"
    /\ LET comment == comments[an[t].i]
       IN children_cache' = PutChildren(children_cache, comment.id,
                                        ChildrenOf(comments, comment.id))
    /\ an' = [an EXCEPT ![t] =
                 IF an[t].i < Len(comments) THEN [@ EXCEPT !.i = @ + 1]
                 ELSE [@ EXCEPT !.pc = IF an[t].op = "analyze_depth" THEN "depth"
                                       ELSE "chains"]]
    /\ UNCHANGED depth_cache

\* depth = self._calculate_depth(root_comment, ...); max_depth = max(max_depth, depth)
DepthStep(t) ==
    /\ an[t].pc = "depth"
    /\ IF an[t].roots = <<>>
       THEN /\ an' = [an EXCEPT ![t].pc = "average"]
            /\ UNCHANGED depth_cache
       ELSE LET r == CalculateDepth(Head(an[t].roots), children_cache, depth_cache,
                                    cache_enabled)
            IN /\ depth_cache' = r.cache
               /\ an' = [an EXCEPT ![t] = [@ EXCEPT !.roots = Tail(@),
                                               !.max_depth = Max(@, r.depth)]]
    /\ UNCHANGED children_cache

\* reply_counts, avg_replies and the return of analyze_depth
AverageStep(t) ==
    /\ an[t].pc = "average"
    /\ LET reply_counts == [j \in 1..Len(comments) |->
                               Len(CachedChildren(children_cache, comments[j].id))]
       IN an' = [an EXCEPT ![t] = [@ EXCEPT !.pc = "returned", !.result =
                    [post_id |-> an[t].post_id, max_depth |-> an[t].max_depth,
                     total_comments |-> Len(comments),
                     total_replies |-> Len(comments) - Len(RootComments(comments)),
                     average_replies_per_comment |->
                         [num |-> SeqSum(reply_counts), den |-> Len(comments)]]]]
    /\ UNCHANGED <<depth_cache, children_cache>>

\* the backtracking over all roots and the return of detect_viral_chains
ChainsStep(t) ==
    /\ an[t].pc = "chains"
    /\ an' = [an EXCEPT ![t] = [@ EXCEPT !.pc = "returned", !.result =
                 ViralValue(an[t].post_id, an[t].roots, children_cache,
                            viral_min_replies)]]
    /\ UNCHANGED <<depth_cache, children_cache>>

\* the module-level analyzer with its defaults, the comments of post 1, no call yet
InitShared ==
    /\ comments \in SharedLists
    /\ cache_enabled = TRUE
    /\ viral_min_replies = 3
    /\ depth_cache = <<>>
    /\ children_cache = <<>>
    /\ analysis = [op |-> "init", post_id |-> 0, raised |-> FALSE, value |-> None,
                   queries |-> <<>>]
    /\ an = [t \in Threads |-> IdleAnalysis]
    /\ EngineIdle
    /\ ThreadsInit
    /\ WalkIdle
    /\ RecoIdle
    /\ RetryIdle
    /\ EngIdle

sharedOthers ==
    <<trendVars, ledger, th, comments, cache_enabled, viral_min_replies, analysis, walk,
      reco, call, eng>>

NextShared ==
    \/ \E t \in Threads, op \in {"analyze_depth", "detect_viral_chains"}, p \in PostIds :
          Begin(t, op, p) /\ UNCHANGED sharedOthers
    \/ \E t \in Threads : AnalyzeClear(t) /\ UNCHANGED sharedOthers
    \/ \E t \in Threads : AnalysisFetch(t) /\ UNCHANGED sharedOthers
    \/ \E t \in Threads : ViralClear(t) /\ UNCHANGED sharedOthers
    \/ \E t \in Threads : IndexStep(t) /\ UNCHANGED sharedOthers
    \/ \E t \in Threads : DepthStep(t) /\ UNCHANGED sharedOthers
    \/ \E t \in Threads : AverageStep(t) /\ UNCHANGED sharedOthers
    \/ \E t \in Threads : ChainsStep(t) /\ UNCHANGED sharedOthers

SpecShared == InitShared /\ [][NextShared]_vars

\* ------------------------------------------------------------- RecommendationEngine
MaxPosts == 3         \* the database holds MaxPosts posts
PostRows == 1..MaxPosts
\* a hashtag's name stands for its row: Hashtag.name is unique
TagNames == {1, 2, 3}
MaxRecommendationsArgs == 0..3
\* min_cooccurrence_rate as a fraction: the default 0.3, and 0.5
Rates == {[num |-> 3, den |-> 10], [num |-> 1, den |-> 2]}

\* func.count(PostHashtag.post_id) filtered on the target hashtag
TotalTargetPosts(post_hashtags, target) ==
    Cardinality({p \in DOMAIN post_hashtags : target \in post_hashtags[p]})

\* COUNT(DISTINCT ph1.post_id) of the self-join for one other hashtag
CooccurrenceCount(post_hashtags, target, other) ==
    Cardinality({p \in DOMAIN post_hashtags :
                    target \in post_hashtags[p] /\ other \in post_hashtags[p]})

\* the query without `AND ph2.hashtag_id != :target_hashtag_id`
CooccurrenceQuery_WithTarget(post_hashtags, hashtags, target) ==
    LET rows == {[name |-> g, cooccurrence_count |->
                                  CooccurrenceCount(post_hashtags, target, g)] :
                    g \in {x \in hashtags :
                              CooccurrenceCount(post_hashtags, target, x) > 0}}
    IN {q \in Perms(rows) :
           \A i, j \in 1..Len(q) :
               i < j => q[i].cooccurrence_count >= q[j].cooccurrence_count}

\* the rows the co-occurrence query can return: one per other hashtag that shares
\* a post with the target, ORDER BY cooccurrence_count DESC, ties in any order
CooccurrenceQuery(post_hashtags, hashtags, target) ==
    LET rows == {[name |-> g, cooccurrence_count |->
                                  CooccurrenceCount(post_hashtags, target, g)] :
                    g \in {x \in hashtags \ {target} :
                              CooccurrenceCount(post_hashtags, target, x) > 0}}
    IN {s \in Perms(rows) :
           \A i, j \in 1..Len(s) :
               i < j => s[i].cooccurrence_count >= s[j].cooccurrence_count}

\* cooccurrence_rate > self.min_cooccurrence_rate
MeetsRate_Strict(cooccurrence_count, total_target_posts, rate) ==
    cooccurrence_count * rate.den > rate.num * total_target_posts

\* cooccurrence_rate >= self.min_cooccurrence_rate, with
\* cooccurrence_rate = cooccurrence_count / total_target_posts
MeetsRate(cooccurrence_count, total_target_posts, rate) ==
    cooccurrence_count * rate.den >= rate.num * total_target_posts

\* the loop over the rows and the slice, for one result of the query
RECURSIVE Recommend(_, _, _)
Recommend(rows, total_target_posts, rate) ==
    IF rows = <<>> THEN <<>>
    ELSE LET row == Head(rows)
             rest == Recommend(Tail(rows), total_target_posts, rate)
         IN IF MeetsRate(row.cooccurrence_count, total_target_posts, rate)
            THEN <<[name |-> row.name,
                    rate |-> [num |-> row.cooccurrence_count,
                              den |-> total_target_posts]]>> \o rest
            ELSE rest

\* the lists _compute_recommendations can return
ComputeRecommendations(post_hashtags, hashtags, rate, hashtag, max_recommendations) ==
    IF hashtag \notin hashtags THEN {<<>>}
    ELSE LET total_target_posts == TotalTargetPosts(post_hashtags, hashtag)
         IN IF total_target_posts = 0 THEN {<<>>}
            ELSE {Slice(Recommend(rows, total_target_posts, rate), max_recommendations) :
                     rows \in CooccurrenceQuery(post_hashtags, hashtags, hashtag)}

GetRecommendations(hashtag, max_recommendations) ==
    \E value \in ComputeRecommendations(reco.post_hashtags, reco.hashtags,
                                        reco.min_cooccurrence_rate, hashtag,
                                        max_recommendations) :
        reco' = [reco EXCEPT !.called = TRUE, !.hashtag = hashtag,
                             !.max_recommendations = max_recommendations,
                             !.result = value]

\* any posts with any hashtags; every hashtag of a post has its row in hashtags
InitReco ==
    /\ \E post_hashtags \in [PostRows -> SUBSET TagNames], hashtags \in SUBSET TagNames,
          rate \in Rates :
          /\ \A p \in PostRows : post_hashtags[p] \subseteq hashtags
          /\ reco = [post_hashtags |-> post_hashtags, hashtags |-> hashtags,
                     min_cooccurrence_rate |-> rate, called |-> FALSE,
                     hashtag |-> None, max_recommendations |-> None, result |-> <<>>]
    /\ EngineIdle
    /\ ThreadsInit
    /\ AnalyzerIdle
    /\ WalkIdle
    /\ SharedIdle
    /\ RetryIdle
    /\ EngIdle

NextReco ==
    \E hashtag \in TagNames, max_recommendations \in MaxRecommendationsArgs :
        GetRecommendations(hashtag, max_recommendations)
        /\ UNCHANGED <<trendVars, ledger, th, analyzerVars, walk, an, call, eng>>

SpecReco == InitReco /\ [][NextReco]_vars

\* ------------------------------------------------------------- the retry wrapper
\* config.py: DB_RETRY_ATTEMPTS, DB_RETRY_MIN_WAIT, DB_RETRY_MAX_WAIT (defaults)
DB_RETRY_ATTEMPTS == 3
DB_RETRY_MIN_WAIT == 1
DB_RETRY_MAX_WAIT == 10

\* the functions defined under @retry(stop=stop_after_attempt(DB_RETRY_ATTEMPTS),
\* wait=wait_exponential(...), reraise=True): all of them are in reports.py
RetryWrapped ==
    {"get_most_engaged_users", "get_top_hashtags", "get_fastest_growing_hashtags",
     "insert_engagement_with_transaction"}

\* the service functions that are defined without a wrapper
Unwrapped ==
    {"populate_trending_from_db", "analyze_depth", "detect_viral_chains",
     "get_comment_tree_structure"}

ServiceCalls == RetryWrapped \cup Unwrapped

\* what a call can refer to that is not in the database ("nothing": all is there)
Absent(fn) ==
    IF fn = "insert_engagement_with_transaction"
    THEN {"nothing", "user", "post", "comment"}
    ELSE IF fn \in {"analyze_depth", "detect_viral_chains", "get_comment_tree_structure"}
    THEN {"nothing", "post"}
    ELSE {"nothing"}

\* one execution of the function's body: a database error at some query, else
\* ValueError("... not found") when a referenced row is absent, else the result
BodyOutcomes(missing) ==
    {"db_error"} \cup (IF missing = "nothing" THEN {"ok"} ELSE {"not_found"})

\* tenacity's default retry condition, retry_if_exception_type(): any exception;
\* stop_after_attempt(n) stops once attempt_number >= n
RetriedAgain(fn, attempt_number, outcome) ==
    /\ fn \in RetryWrapped
    /\ outcome # "ok"
    /\ attempt_number < DB_RETRY_ATTEMPTS

\* wait_exponential(multiplier=1, min=DB_RETRY_MIN_WAIT, max=DB_RETRY_MAX_WAIT)
WaitExponential(attempt_number) ==
    Max(DB_RETRY_MIN_WAIT, Min(2 ^ (attempt_number - 1), DB_RETRY_MAX_WAIT))

\* a caller calls a service function
Invoke(fn, missing) ==
    /\ call.pc \in {"idle", "returned", "raised"}
    /\ call' = [fn |-> fn, missing |-> missing, pc |-> "running", attempt_number |-> 1,
                log |-> <<>>, slept |-> 0]

\* the body runs once; its outcome is returned, raised to the caller, or retried
Attempt ==
    /\ call.pc = "running"
    /\ \E outcome \in BodyOutcomes(call.missing) :
          call' = [call EXCEPT
                      !.log = Append(@, outcome),
                      !.pc = IF outcome = "ok" THEN "returned"
                             ELSE IF RetriedAgain(call.fn, call.attempt_number, outcome)
                             THEN "waiting"
                             ELSE "raised"]

\* the wrapper sleeps and starts the next attempt
Sleep ==
    /\ call.pc = "waiting"
    /\ call' = [call EXCEPT !.pc = "running",
                            !.slept = @ + WaitExponential(call.attempt_number),
                            !.attempt_number = @ + 1]

InitRetry ==
    /\ RetryIdle
    /\ EngineIdle
    /\ ThreadsInit
    /\ AnalyzerIdle
    /\ WalkIdle
    /\ SharedIdle
    /\ RecoIdle
    /\ EngIdle

retryOthers == <<trendVars, ledger, th, analyzerVars, walk, an, reco, eng>>

NextRetry ==
    \/ \E fn \in ServiceCalls : \E missing \in Absent(fn) :
          Invoke(fn, missing) /\ UNCHANGED retryOthers
    \/ Attempt /\ UNCHANGED retryOthers
    \/ Sleep /\ UNCHANGED retryOthers

SpecRetry == InitRetry /\ [][NextRetry]_vars

\* ------------------------------------------------------------- one analyzer, call after call
\* The analyzer keeps its two dicts from one call to the next, and the comments
\* table changes between calls (another post, or new rows). Each call works on
\* the dicts as the call before left them.
HistoryLists == {cs \in CommentLists : Len(cs) <= 2}

\* mutant: the dict is left as it is
ClearDict_Kept(d) == d

\* dict.clear()
ClearDict(d) == <<>>

\* self._children_cache[comment.id] = children, for every comment of the list
FillChildren(old, cs) ==
    [id \in (DOMAIN old) \cup {cs[i].id : i \in 1..Len(cs)} |->
        IF \E i \in 1..Len(cs) : cs[i].id = id THEN ChildrenOf(cs, id) ELSE old[id]]

\* mutant: the depth is written to the memo whether or not the cache is enabled
RECURSIVE CalculateDepthFrom_AlwaysMemo(_, _, _, _)
CalculateDepthFrom_AlwaysMemo(list, children, cache, enabled) ==
    IF list = <<>> THEN [depth |-> 0, cache |-> cache]
    ELSE LET first == CalculateDepth(Head(list), children, cache, enabled)
             memo == [i \in (DOMAIN first.cache) \cup {Head(list).id} |->
                         IF i = Head(list).id THEN first.depth ELSE first.cache[i]]
             rest == CalculateDepthFrom_AlwaysMemo(Tail(list), children, memo, enabled)
         IN [depth |-> Max(first.depth, rest.depth), cache |-> rest.cache]

\* the loop over root_comments: _calculate_depth on each, on the memo as it stands
CalculateDepthFrom(list, children, cache, enabled) ==
    MaxDepthOver(list, children, cache, enabled)

\* the dicts a call finds when it starts
Found == [depth_cache |-> depth_cache, children_cache |-> children_cache]

\* analyze_depth on the analyzer as the earlier calls left it
AnalyzeDepthAgain(post_id) ==
    LET memo == ClearDict(depth_cache)
        index == ClearDict(children_cache)
    IN /\ IF ~PostExists(post_id)
          THEN /\ depth_cache' = memo
               /\ children_cache' = index
               /\ analysis' = [op |-> "analyze_depth", post_id |-> post_id,
                               raised |-> TRUE, value |-> None, queries |-> <<"post">>,
                               found |-> Found]
          ELSE IF comments = <<>>
          THEN /\ depth_cache' = memo
               /\ children_cache' = index
               /\ analysis' = [op |-> "analyze_depth", post_id |-> post_id,
                               raised |-> FALSE,
                               value |-> [post_id |-> post_id, max_depth |-> 0,
                                          total_comments |-> 0, total_replies |-> 0,
                                          average_replies_per_comment |->
                                              [num |-> 0, den |-> 1]],
                               queries |-> <<"post", "comments">>, found |-> Found]
          ELSE LET children == FillChildren(index, comments)
                   roots == RootComments(comments)
                   deepest == CalculateDepthFrom(roots, children, memo, cache_enabled)
                   reply_counts == [i \in 1..Len(comments) |->
                                       Len(CachedChildren(children, comments[i].id))]
               IN /\ depth_cache' = deepest.cache
                  /\ children_cache' = children
                  /\ analysis' = [op |-> "analyze_depth", post_id |-> post_id,
                                  raised |-> FALSE,
                                  value |-> [post_id |-> post_id,
                                             max_depth |-> deepest.depth,
                                             total_comments |-> Len(comments),
                                             total_replies |-> Len(comments) - Len(roots),
                                             average_replies_per_comment |->
                                                 [num |-> SeqSum(reply_counts),
                                                  den |-> Len(comments)]],
                                  queries |-> <<"post", "comments">>, found |-> Found]
       /\ UNCHANGED <<comments, cache_enabled, viral_min_replies>>

\* detect_viral_chains on the analyzer as the earlier calls left it
DetectViralChainsAgain(post_id) ==
    /\ IF ~PostExists(post_id)
       THEN /\ children_cache' = children_cache
            /\ analysis' = [op |-> "detect_viral_chains", post_id |-> post_id,
                            raised |-> TRUE, value |-> None, queries |-> <<"post">>,
                            found |-> Found]
       ELSE IF comments = <<>>
       THEN /\ children_cache' = children_cache
            /\ analysis' = [op |-> "detect_viral_chains", post_id |-> post_id,
                            raised |-> FALSE,
                            value |-> [post_id |-> post_id, longest_chain_length |-> 0,
                                       longest_chain_comments |-> <<>>,
                                       total_viral_chains |-> 0,
                                       viral_criteria_met |-> FALSE],
                            queries |-> <<"post", "comments">>, found |-> Found]
       ELSE LET children == FillChildren(ClearDict(children_cache), comments)
            IN /\ children_cache' = children
               /\ analysis' = [op |-> "detect_viral_chains", post_id |-> post_id,
                               raised |-> FALSE,
                               value |-> ViralValue(post_id, RootComments(comments),
                                                    children, viral_min_replies),
                               queries |-> <<"post", "comments">>, found |-> Found]
    /\ UNCHANGED <<comments, cache_enabled, viral_min_replies, depth_cache>>

\* the next call is for other comments: the table holds another list, and the
\* last result is of no use any more
OtherComments(cs) ==
    /\ cs # comments
    /\ comments' = cs
    /\ analysis' = [op |-> "init", post_id |-> 0, raised |-> FALSE, value |-> None,
                    queries |-> <<>>]
    /\ UNCHANGED <<cache_enabled, viral_min_replies, depth_cache, children_cache>>

InitHistory ==
    /\ comments \in HistoryLists
    /\ cache_enabled \in BOOLEAN
    /\ viral_min_replies = 3
    /\ depth_cache = <<>>
    /\ children_cache = <<>>
    /\ analysis = [op |-> "init", post_id |-> 0, raised |-> FALSE, value |-> None,
                   queries |-> <<>>]
    /\ EngineIdle
    /\ ThreadsInit
    /\ RestIdle

NextHistory ==
    \/ \E post_id \in PostIds :
          AnalyzeDepthAgain(post_id) /\ UNCHANGED <<trendVars, ledger, th, restVars>>
    \/ \E post_id \in PostIds :
          DetectViralChainsAgain(post_id) /\ UNCHANGED <<trendVars, ledger, th, restVars>>
    \/ \E cs \in HistoryLists :
          OtherComments(cs) /\ UNCHANGED <<trendVars, ledger, th, restVars>>

SpecHistory == InitHistory /\ [][NextHistory]_vars

\* ------------------------------------------------------------- insert_engagement_with_transaction
\* the rows the session sees: user 1, posts 1 (with hashtags) and 2 (without),
\* comment 1; the other ids are in no table
SimulatedFailureUser == 999999
InsertArgs ==
    [user_id : {1, 2, SimulatedFailureUser}, target_type : {"post", "comment", "hashtag"},
     target_id : {1, 2, 3}, kind : {"like", "share", "view"},
     also_increment_counter : BOOLEAN]

SessionRows ==
    [users |-> {1}, posts |-> {1, 2}, posts_with_hashtags |-> {1}, comments |-> {1}]

\* the engagements table as the number of rows of each tuple that has any
RowCount(rows, key) == IF key \in DOMAIN rows THEN rows[key] ELSE 0

AddRow(rows, key) ==
    [k \in DOMAIN rows \cup {key} |-> RowCount(rows, k) + IF k = key THEN 1 ELSE 0]

\* mutant: the query for an existing engagement finds none
HasEngagement_Never(rows, key) == FALSE

\* the query on (user_id, target_type, target_id, kind), .first()
HasEngagement(rows, key) == RowCount(rows, key) > 0

\* one execution of the body: the rows and upvotes it leaves, and how it ends
InsertBody(rows, upvotes, user_id, target_type, target_id, kind, also_increment_counter) ==
    LET key == <<user_id, target_type, target_id, kind>>
        raise(error, message) ==
            [rows |-> rows, upvotes |-> upvotes, status |-> "raised",
             error |-> error, message |-> message]
        added == AddRow(rows, key)
    IN IF user_id >= SimulatedFailureUser THEN raise("Exception", "simulated")
       ELSE IF target_type \notin {"post", "comment"}
       THEN raise("ValueError", "invalid target_type")
       ELSE IF kind \notin {"like", "bookmark", "share"}
       THEN raise("ValueError", "invalid kind")
       ELSE IF user_id \notin SessionRows.users THEN raise("ValueError", "user not found")
       ELSE IF target_type = "post" /\ target_id \notin SessionRows.posts
       THEN raise("ValueError", "post not found")
       ELSE IF target_type = "comment" /\ target_id \notin SessionRows.comments
       THEN raise("ValueError", "comment not found")
       ELSE IF HasEngagement(rows, key) THEN raise("ValueError", "duplicate")
       ELSE IF also_increment_counter /\ target_type = "post"
               /\ target_id \in SessionRows.posts_with_hashtags
       THEN \* Hashtag.tag is no attribute of the model: raised after the flush
            [rows |-> added, upvotes |-> upvotes, status |-> "raised",
             error |-> "AttributeError", message |-> "Hashtag.tag"]
       ELSE [rows |-> added,
             upvotes |-> IF also_increment_counter /\ target_type = "comment"
                            /\ kind = "like"
                         THEN upvotes + 1 ELSE upvotes,
             status |-> "returned", error |-> "none", message |-> "success"]

\* the body under @retry: run again after any exception, DB_RETRY_ATTEMPTS
\* attempts in all, the last exception re-raised
RECURSIVE InsertAttempts(_, _, _, _, _, _, _, _)
InsertAttempts(rows, upvotes, user_id, target_type, target_id, kind, also_increment_counter, attempt_number) ==
    LET r == InsertBody(rows, upvotes, user_id, target_type, target_id, kind,
                        also_increment_counter)
    IN IF r.status = "returned" \/ attempt_number >= DB_RETRY_ATTEMPTS
       THEN [r EXCEPT !.message = <<r.message, attempt_number>>]
       ELSE InsertAttempts(r.rows, r.upvotes, user_id, target_type, target_id, kind,
                           also_increment_counter, attempt_number + 1)

InsertEngagementWithTransaction(user_id, target_type, target_id, kind, also_increment_counter) ==
    LET r == InsertAttempts(eng.rows, eng.upvotes, user_id, target_type, target_id,
                            kind, also_increment_counter, 1)
    IN eng' = [rows |-> r.rows, upvotes |-> r.upvotes,
               last |-> [key |-> <<user_id, target_type, target_id, kind>>,
                         also_increment_counter |-> also_increment_counter,
                         status |-> r.status, error |-> r.error,
                         message |-> r.message[1], attempts |-> r.message[2]]]

InitEngage ==
    /\ EngIdle
    /\ EngineIdle
    /\ ThreadsInit
    /\ AnalyzerIdle
    /\ WalkIdle
    /\ SharedIdle
    /\ RecoIdle
    /\ RetryIdle

NextEngage ==
    \E a \in InsertArgs :
        InsertEngagementWithTransaction(a.user_id, a.target_type, a.target_id, a.kind,
                                        a.also_increment_counter)
        /\ UNCHANGED <<trendVars, ledger, th, analyzerVars, walk, an, reco, call>>

SpecEngage == InitEngage /\ [][NextEngage]_vars

\* ------------------------------------------------------------- what the claims speak of
EngineOps == {"increment", "get_count", "top", "get_status"}

\* the window a call asked for: its argument, or the engine's default for None
AskedWindow == IF ret.window = None THEN window_minutes ELSE ret.window[1]

\* the sum of f over the minutes lo..hi that f has
RECURSIVE RangeSum(_, _, _)
RangeSum(f, lo, hi) ==
    IF lo > hi THEN 0
    ELSE (IF hi \in DOMAIN f THEN f[hi] ELSE 0) + RangeSum(f, lo, hi - 1)

\* the windowed sum of a key of the store, for a call made at minute c
StoreSum(h, c, w) ==
    IF h \in DOMAIN counters THEN RangeSum(counters[h], c - w, MaxMinute) ELSE 0

\* C1: get_count(key, W) with W > 0, called at minute c after increments only,
\* returns the sum of the amounts incremented into key at the minutes c - W .. c,
\* whether W is below, equal to or above window_minutes.
C1_GetCountSumsTheIncrements ==
    (ret.op = "get_count" /\ AskedWindow > 0)
        => ret.value = RangeSum(ledger[ret.hashtag], ret.at - AskedWindow, ret.at)

\* C2: top(k, W) with W > 0 and k >= 0 returns the first k of the (key, windowed
\* sum) pairs with sum > 0, by sum descending and key ascending among equal sums;
\* all of them when fewer than k qualify.
Qualifying == {h \in DOMAIN counters : StoreSum(h, ret.at, AskedWindow) > 0}

Listed == {ret.value[i][1] : i \in 1..Len(ret.value)}

RanksBefore(h1, h2) ==
    LET s1 == StoreSum(h1, ret.at, AskedWindow)
        s2 == StoreSum(h2, ret.at, AskedWindow)
    IN s1 > s2 \/ (s1 = s2 /\ h1 < h2)

C3_NoStaleBucketAfterCall ==
    (ret.op \in EngineOps \cup {"populate"}) =>
        \A h \in DOMAIN counters :
            /\ DOMAIN counters[h] # {}
            /\ \A m \in DOMAIN counters[h] : m >= ret.at - window_minutes

\* ------------------------------------------------------------- concurrent calls
AllReturned == \A t \in Threads : th[t].pc = "done"

Incrementers(h) == {t \in Threads : th[t].op = "increment" /\ th[t].hashtag = h}

\* the bucket of key h for the current minute, 0 when there is none
CurrentBucket(h) ==
    IF h \in DOMAIN counters /\ now \in DOMAIN counters[h] THEN counters[h][now] ELSE 0

\* the sums of the prefixes of the linear orders of the amounts incremented into h
PrefixSums(h) ==
    {SumOver([t \in Threads |-> th[t].count], S) : S \in SUBSET Incrementers(h)}

\* C4: increments and windowed reads of one key made by several threads are
\* linearizable: when the steps of two or more increment(key, a) calls of the same
\* minute interleave, the bucket holds the sum of all amounts once all have
\* returned, and a get_count running beside increments returns the sum of a
\* prefix of one order of them.
C4_ConcurrentCallsAreLinearizable ==
    AllReturned =>
        \A h \in Hashtags :
            /\ Cardinality(Incrementers(h)) >= 2 =>
                  CurrentBucket(h) = SumOver([t \in Threads |-> th[t].count], Incrementers(h))
            /\ \A t \in Threads :
                  (/\ th[t].op = "get_count" /\ th[t].hashtag = h
                   /\ EffectiveWindow(th[t].window, window_minutes) > 0)
                      => th[t].result \in PrefixSums(h)

\* C5: when an eviction pass interleaves with an increment made by another thread,
\* the increment is not discarded: after both calls have returned (and a pass has
\* run: _last_cleanup has moved) the key is in the store and its bucket of the
\* current minute holds the amount.
C5_EvictionKeepsTheIncrement ==
    (AllReturned /\ last_cleanup > 0) =>
        \A t \in Threads :
            (th[t].op = "increment" /\ Incrementers(th[t].hashtag) = {t}) =>
                /\ th[t].hashtag \in DOMAIN counters
                /\ now \in DOMAIN counters[th[t].hashtag]
                /\ counters[th[t].hashtag][now] = th[t].count


\* C6: a key all of whose buckets lie before c - window_minutes, and which the call
\* does not increment, is gone after the first get_status, top, get_count or
\* increment call made at minute c: not in the store (so not counted in
\* total_hashtags), get_count returns 0 for it and top does not list it.
StaleKeys == {h \in DOMAIN counters :
                 \A m \in DOMAIN counters[h] : m < now - window_minutes}

C6_StaleKeyGoneAfterFirstCall ==
    [][(/\ ret.engine_at < now
        /\ ret'.op \in EngineOps /\ ret'.at = now /\ ret'.engine_at = now)
       => \A h \in StaleKeys :
             (ret'.op = "increment" /\ ret'.hashtag = h)
             \/ (/\ h \notin DOMAIN counters'
                 /\ (ret'.op = "get_status"
                       => ret'.value.total_hashtags = Cardinality(DOMAIN counters \ StaleKeys))
                 /\ (ret'.op = "get_count" /\ ret'.hashtag = h => ret'.value = 0)
                 /\ (ret'.op = "top"
                       => \A i \in 1..Len(ret'.value) : ret'.value[i][1] # h))]_vars

\* C7: get_count(key, W) returns 0 and top(k, W) returns [] whenever W <= 0; an
\* explicit 0 is not replaced by the default window.
C7_NonPositiveWindowIsEmpty ==
    /\ (ret.op = "get_count" /\ ret.window # None /\ ret.window[1] <= 0) => ret.value = 0
    /\ (ret.op = "top" /\ ret.window # None /\ ret.window[1] <= 0) => ret.value = <<>>

\* get_count(key, 0) on a key whose bucket of the current minute is positive
C7_Witness ==
    /\ ret.op = "get_count" /\ ret.window = Some(0)
    /\ ret.hashtag \in DOMAIN counters
    /\ ret.at \in DOMAIN counters[ret.hashtag]
    /\ counters[ret.hashtag][ret.at] > 0
    /\ ret.value = 0

\* C8: a top(k, W) call that follows a top(k, W) call of the same minute, with no
\* other call between them, returns the same list and leaves the counters as
\* they are.
C8_TopIsIdempotent ==
    [][(/\ ret.op = "top" /\ ret.at = now
        /\ ret'.op = "top" /\ ret'.at = now
        /\ ret'.k = ret.k /\ ret'.window = ret.window)
       => (ret'.value = ret.value /\ counters' = counters /\ key_order' = key_order)]_vars

\* a top call has returned a non-empty list for a window above window_minutes
\* in the current minute; the same call made again is the case of C8
C8_Witness ==
    /\ ret.op = "top" /\ ret.at = now /\ now > window_minutes
    /\ ret.window # None /\ ret.window[1] > window_minutes
    /\ ret.value # <<>>

\* ------------------------------------------------------------- comment forests
IdsOf(cs) == {cs[i].id : i \in 1..Len(cs)}

RowOf(cs, id) == CHOOSE c \in SeqSet(cs) : c.id = id

\* where k steps along parent_id lead from id: an id of the list, or the first
\* value that is not one
RECURSIVE UpFrom(_, _, _)
UpFrom(cs, id, k) ==
    IF k = 0 \/ id \notin IdsOf(cs) THEN id
    ELSE UpFrom(cs, RowOf(cs, id).parent_id, k - 1)

\* no comment is its own ancestor
Acyclic(cs) == \A id \in IdsOf(cs) : UpFrom(cs, id, Len(cs)) \notin IdsOf(cs)

\* every parent_id that is not None is the id of a row, and there is no cycle
WellFormed(cs) == \A id \in IdsOf(cs) : UpFrom(cs, id, Len(cs)) = NoParent

RECURSIVE SetMax(_)
SetMax(S) ==
    IF S = {} THEN 0
    ELSE LET x == CHOOSE y \in S : TRUE
         IN Max(x, SetMax(S \ {x}))

\* depth(c): 1 without children, else 1 + the maximum depth of its children
RECURSIVE DepthOf(_, _)
DepthOf(cs, id) ==
    LET kids == {c.id : c \in {r \in SeqSet(cs) : r.parent_id = id}}
    IN IF kids = {} THEN 1 ELSE 1 + SetMax({DepthOf(cs, kid) : kid \in kids})

Analysed == analysis.op = "analyze_depth" /\ ~analysis.raised

TopLevel(cs) == {c.id : c \in {r \in SeqSet(cs) : r.parent_id = NoParent}}

\* one root and at most one reply to each comment
IsChain(cs) ==
    /\ Cardinality(TopLevel(cs)) = 1
    /\ \A id \in IdsOf(cs) : Len(ChildrenOf(cs, id)) <= 1

\* one root, and every other comment replies to it
IsStar(cs) ==
    /\ Len(cs) >= 2
    /\ Cardinality(TopLevel(cs)) = 1
    /\ \A c \in SeqSet(cs) : c.parent_id # NoParent => c.parent_id \in TopLevel(cs)

\* C9: for a well-formed forest analyze_depth returns as max_depth the maximum of
\* depth(c) over the top-level comments, depth(c) being 1 for a comment without
\* children and else 1 + the maximum depth of its children: 0 for the empty list,
\* N for one chain of N comments, 2 for a root with M >= 1 direct children.
C9_MaxDepthOfForest ==
    (Analysed /\ WellFormed(comments)) =>
        /\ analysis.value.max_depth =
               SetMax({DepthOf(comments, id) : id \in TopLevel(comments)})
        /\ (comments = <<>> => analysis.value.max_depth = 0)
        /\ (IsChain(comments) => analysis.value.max_depth = Len(comments))
        /\ (IsStar(comments) => analysis.value.max_depth = 2)

\* a chain of MaxComments comments whose root is not the first row, analysed with
\* memoization on
C9_Witness ==
    /\ Analysed /\ WellFormed(comments) /\ IsChain(comments)
    /\ Len(comments) = MaxComments
    /\ comments[1].parent_id # NoParent
    /\ cache_enabled
    /\ analysis.value.max_depth = MaxComments

\* the comments whose parent_id is the id of no row: the top-level ones and the orphans
Parentless(cs) == {c.id : c \in {r \in SeqSet(cs) : r.parent_id \notin IdsOf(cs)}}

\* C10: a comment whose parent_id is the id of no comment of the list is treated
\* as a root by analyze_depth, its subtree counting towards max_depth: 1 for a
\* list whose only comment has an absent parent, n for an orphan followed by a
\* chain of n - 1 descendants.
C10_OrphanIsRoot ==
    (Analysed /\ Acyclic(comments)) =>
        analysis.value.max_depth =
            SetMax({DepthOf(comments, id) : id \in Parentless(comments)})

\* how many rows of cs satisfy Test
CountRows(cs, Test(_)) == Cardinality({i \in 1..Len(cs) : Test(cs[i])})

\* C12: for every non-empty comment list analyze_depth returns total_comments =
\* the number of comments, total_replies = the number of comments with a non-null
\* parent_id, and average_replies_per_comment = the number of comments whose
\* parent_id is the id of a comment of the list, over total_comments; M / (M + 1)
\* for one root with M direct children.
C12_CountsAndAverage ==
    (Analysed /\ comments # <<>>) =>
        LET v == analysis.value
            avg == v.average_replies_per_comment
        IN /\ v.total_comments = Len(comments)
           /\ v.total_replies = CountRows(comments, LAMBDA c : c.parent_id # NoParent)
           /\ avg.den = v.total_comments
           /\ avg.num = CountRows(comments, LAMBDA c : c.parent_id \in IdsOf(comments))
           /\ (IsStar(comments) /\ WellFormed(comments)) =>
                 avg.num * Len(comments) = (Len(comments) - 1) * avg.den

\* three comments: a root, a reply to it and a reply to a comment that is not there
C12_Witness ==
    /\ Analysed /\ Len(comments) = MaxComments
    /\ analysis.value.total_replies = 2
    /\ analysis.value.average_replies_per_comment.num = 1
    /\ Cardinality(Parentless(comments)) = 2

\* ------------------------------------------------------------- viral chains
Detected == analysis.op = "detect_viral_chains" /\ ~analysis.raised

\* viral: at least viral_min_replies direct replies, or at least viral_min_upvotes
IsViralRow(cs, c) ==
    \/ CountRows(cs, LAMBDA r : r.parent_id = c.id) >= viral_min_replies
    \/ c.upvotes >= viral_min_upvotes

\* every comment from id up to its top-level ancestor is viral (forests only)
RECURSIVE ViralToTheTop(_, _)
ViralToTheTop(cs, id) ==
    LET c == RowOf(cs, id)
    IN /\ IsViralRow(cs, c)
       /\ (c.parent_id = NoParent \/ ViralToTheTop(cs, c.parent_id))

\* C13: for a well-formed forest total_viral_chains is the number of pairs (r, d)
\* with r a viral top-level comment, d a proper descendant of r and every comment
\* on the path from r to d viral: N - 1 for one all-viral branch of N comments,
\* none below top-level comments that are not viral.
C13_TotalIsTheNumberOfViralPaths ==
    (Detected /\ WellFormed(comments)) =>
        LET total == analysis.value.total_viral_chains
            all_viral == \A id \in IdsOf(comments) : IsViralRow(comments, RowOf(comments, id))
            no_viral_top ==
                \A id \in TopLevel(comments) : ~IsViralRow(comments, RowOf(comments, id))
        IN /\ total = Cardinality({id \in IdsOf(comments) \ TopLevel(comments) :
                                      ViralToTheTop(comments, id)})
           /\ (IsChain(comments) /\ all_viral => total = Len(comments) - 1)
           /\ (no_viral_top => total = 0)

\* an all-viral branch of MaxComments comments
C13_Witness ==
    /\ Detected /\ WellFormed(comments) /\ IsChain(comments)
    /\ Len(comments) = MaxComments
    /\ \A i \in 1..Len(comments) : comments[i].upvotes >= viral_min_upvotes
    /\ analysis.value.total_viral_chains = MaxComments - 1

\* the position of a comment in the list
PosOf(cs, id) == CHOOSE i \in 1..Len(cs) : cs[i].id = id

\* the viral chains of a list, as id sequences: from a viral top-level comment
\* down through viral children, two comments or more
ViralPaths(cs) ==
    UNION {{p \in [1..n -> IdsOf(cs)] :
               /\ RowOf(cs, p[1]).parent_id = NoParent
               /\ \A i \in 1..n : IsViralRow(cs, RowOf(cs, p[i]))
               /\ \A i \in 2..n : RowOf(cs, p[i]).parent_id = p[i - 1]} : n \in 2..Len(cs)}

\* p is reached before q by the depth-first traversal in list order
ReachedBefore(cs, p, q) ==
    \E i \in 1..Len(p) :
        /\ i <= Len(q)
        /\ \A j \in 1..(i - 1) : p[j] = q[j]
        /\ PosOf(cs, p[i]) < PosOf(cs, q[i])

\* C14: longest_chain_length is the maximum length of a recorded chain (0 when
\* there is none) and longest_chain_comments the ids, root to leaf, of the chain
\* of that length that the depth-first traversal in comment-list order reaches
\* first; for an all-viral chain of three, the three ids root to leaf.
C14_LongestIsFirstOfMaxLength ==
    Detected =>
        LET paths == ViralPaths(comments)
            v == analysis.value
        IN /\ v.longest_chain_length = SetMax({Len(p) : p \in paths})
           /\ Len(v.longest_chain_comments) = v.longest_chain_length
           /\ (paths = {} => v.longest_chain_comments = <<>>)
           /\ (paths # {} =>
                 /\ v.longest_chain_comments \in paths
                 /\ \A q \in paths :
                       (Len(q) = v.longest_chain_length /\ q # v.longest_chain_comments)
                           => ReachedBefore(comments, v.longest_chain_comments, q))

\* two chains of the greatest length, below the same root
C14_Witness ==
    /\ Detected
    /\ analysis.value.longest_chain_length = 2
    /\ Cardinality({p \in ViralPaths(comments) : Len(p) = 2}) = 2
    /\ Cardinality(TopLevel(comments)) = 1

\* C15: viral_criteria_met is true exactly when total_viral_chains >= 1, which is
\* exactly when longest_chain_length >= 2; longest_chain_length is never 1, and
\* viral comments none of which has a viral child give no chain.
C15_CriteriaMetIffAChain ==
    Detected =>
        LET v == analysis.value
            viral == {id \in IdsOf(comments) : IsViralRow(comments, RowOf(comments, id))}
        IN /\ v.viral_criteria_met <=> (v.total_viral_chains >= 1)
           /\ (v.total_viral_chains >= 1) <=> (v.longest_chain_length >= 2)
           /\ v.longest_chain_length # 1
           /\ (\A id \in viral : RowOf(comments, id).parent_id \notin viral)
                 => (v.total_viral_chains = 0 /\ ~v.viral_criteria_met)

\* a viral top-level comment whose only reply is not viral: no chain
C15_Witness ==
    /\ Detected /\ WellFormed(comments) /\ Len(comments) = 2
    /\ comments[1].parent_id = NoParent /\ comments[1].upvotes >= viral_min_upvotes
    /\ comments[2].parent_id = 1 /\ ~IsViralRow(comments, comments[2])
    /\ ~analysis.value.viral_criteria_met

\* ------------------------------------------------------------- posts that are not there
AnalyzerOps == {"analyze_depth", "detect_viral_chains", "get_comment_tree_structure"}

\* what each operation returns for a post without comments
EmptyResult(op, post_id) ==
    IF op = "analyze_depth"
    THEN [post_id |-> post_id, max_depth |-> 0, total_comments |-> 0, total_replies |-> 0,
          average_replies_per_comment |-> [num |-> 0, den |-> 1]]
    ELSE IF op = "detect_viral_chains"
    THEN [post_id |-> post_id, longest_chain_length |-> 0, longest_chain_comments |-> <<>>,
          total_viral_chains |-> 0, viral_criteria_met |-> FALSE]
    ELSE [post_id |-> post_id, comments |-> <<>>]

\* C18: analyze_depth, detect_viral_chains and get_comment_tree_structure raise
\* the not-found error when the post does not exist, before any comment is
\* fetched; for a post that exists and has no comments they return the all-zero
\* or empty result and no error.
C18_NotFoundBeforeFetch ==
    analysis.op \in AnalyzerOps =>
        /\ analysis.post_id # 1 =>
              (analysis.raised /\ analysis.queries = <<"post">>)
        /\ analysis.post_id = 1 => ~analysis.raised
        /\ (analysis.post_id = 1 /\ comments = <<>>) =>
              analysis.value = EmptyResult(analysis.op, analysis.post_id)

\* the tree of a post that does not exist was asked for while another post has comments
C18_Witness ==
    /\ analysis.op = "get_comment_tree_structure"
    /\ analysis.raised
    /\ comments # <<>>

\* C11: analyze_depth and detect_viral_chains terminate on every finite comment
\* list with unique ids, also when a comment is its own parent or parent links
\* form a cycle, alone or next to well-formed trees: every traversal returns.
C11_TraversalReturns == <>(walk.pc = "returned")

\* a traversal has returned on a list with a cycle next to a top-level comment
C11_Witness ==
    /\ walk.pc = "returned"
    /\ Len(comments) = MaxComments
    /\ ~Acyclic(comments)
    /\ TopLevel(comments) # {}

\* what the call of thread t returns when it runs alone
AloneResult(t) ==
    IF an[t].op = "analyze_depth"
    THEN DepthAnalysis(an[t].post_id, comments, cache_enabled).value
    ELSE ViralAnalysis(an[t].post_id, comments, viral_min_replies, <<>>).value

\* C16: when two analyses run concurrently on the shared comment_analyzer, each
\* returns exactly what it returns when run alone: neither sees the children
\* index or the depth memo cleared or rebuilt by the other.
C16_ConcurrentAnalysesAreIsolated ==
    \A t \in DOMAIN an : an[t].pc = "returned" => an[t].result = AloneResult(t)

\* the hashtags other than h whose co-occurrence rate with h reaches the threshold
QualifyingTags ==
    {g \in reco.hashtags \ {reco.hashtag} :
        /\ CooccurrenceCount(reco.post_hashtags, reco.hashtag, g) > 0
        /\ CooccurrenceCount(reco.post_hashtags, reco.hashtag, g)
               * reco.min_cooccurrence_rate.den
           >= reco.min_cooccurrence_rate.num
               * TotalTargetPosts(reco.post_hashtags, reco.hashtag)}

\* C17: get_recommendations(h, n) with n >= 0 returns the empty list when h does
\* not exist or is on T = 0 posts; otherwise its entries are pairs (name, C/T) of
\* distinct hashtags other than h with C/T >= min_cooccurrence_rate (equality
\* kept), in co-occurrence-count-descending order, the first n of them: the
\* result has min(n, number of qualifying hashtags) entries and no hashtag left
\* out has a larger count than one that is listed.
C17_RecommendationsContract ==
    reco.called =>
        LET h == reco.hashtag
            n == reco.max_recommendations
            T == TotalTargetPosts(reco.post_hashtags, h)
            C(g) == CooccurrenceCount(reco.post_hashtags, h, g)
            r == reco.result
        IN IF h \notin reco.hashtags \/ T = 0 THEN r = <<>>
           ELSE /\ \A i \in 1..Len(r) :
                      /\ r[i].name \in QualifyingTags
                      /\ r[i].rate = [num |-> C(r[i].name), den |-> T]
                /\ \A i, j \in 1..Len(r) :
                      i < j => r[i].name # r[j].name /\ C(r[i].name) >= C(r[j].name)
                /\ Len(r) = Min(n, Cardinality(QualifyingTags))
                /\ \A g \in QualifyingTags \ {r[i].name : i \in 1..Len(r)} :
                      \A i \in 1..Len(r) : C(g) <= C(r[i].name)

\* two recommendations, the second with a rate equal to the threshold
C17_Witness ==
    /\ reco.called
    /\ Len(reco.result) = 2
    /\ reco.result[1].rate.num > reco.result[2].rate.num
    /\ reco.result[2].rate.num * reco.min_cooccurrence_rate.den
       = reco.min_cooccurrence_rate.num * reco.result[2].rate.den

\* C19: a not-found failure reaches the caller after a single attempt: no service
\* operation that raises it (analyze_depth, detect_viral_chains,
\* get_comment_tree_structure, insert_engagement_with_transaction) is executed
\* again after an attempt that ended in not-found.
C19_NotFoundIsNeverRetried ==
    \A i \in 1..Len(call.log) : call.log[i] = "not_found" => i = Len(call.log)
                                                            /\ call.pc = "raised"

DbFacing ==
    {"populate_trending_from_db", "get_most_engaged_users", "get_top_hashtags",
     "get_fastest_growing_hashtags"}

\* C20: populate_trending_from_db and the report queries are attempted again
\* after an attempt fails with a database error, up to DB_RETRY_ATTEMPTS = 3
\* attempts: the call returns the outcome of the first successful attempt and
\* raises only after the third consecutive failure.
C20_DbCallsAreRetried ==
    call.fn \in DbFacing =>
        /\ \A i \in 1..Len(call.log) : call.log[i] = "ok" => i = Len(call.log)
        /\ call.pc = "returned" => call.log[Len(call.log)] = "ok"
        /\ call.pc = "raised" =>
              /\ Len(call.log) = DB_RETRY_ATTEMPTS
              /\ \A i \in 1..Len(call.log) : call.log[i] = "db_error"

\* C30: top(k, W) never returns more than max(k, 0) entries: for k = 0 and for
\* every negative k it returns the empty list, whatever the store holds.
C30_TopReturnsAtMostK ==
    ret.op = "top" => Len(ret.value) <= Max(ret.k, 0)

\* a <= b for fractions with positive denominators
FracLeq(a, b) == a.num * b.den <= b.num * a.den

\* C29: every list returned by get_recommendations(h, n) with n >= 0 has at most
\* n entries, never contains h itself, has every rate within
\* min_cooccurrence_rate <= rate <= 1, and lists its rates in non-increasing order.
C29_RecommendationsAreBounded ==
    reco.called =>
        /\ Len(reco.result) <= reco.max_recommendations
        /\ \A i \in 1..Len(reco.result) :
              /\ reco.result[i].name # reco.hashtag
              /\ FracLeq(reco.min_cooccurrence_rate, reco.result[i].rate)
              /\ FracLeq(reco.result[i].rate, [num |-> 1, den |-> 1])
        /\ \A i, j \in 1..Len(reco.result) :
              i < j => FracLeq(reco.result[j].rate, reco.result[i].rate)

\* two hashtags qualify, n = 1 cuts the list to the one that is on every post of h
C29_Witness ==
    /\ reco.called
    /\ reco.max_recommendations = 1
    /\ Len(reco.result) = 1
    /\ reco.result[1].rate.num = reco.result[1].rate.den
    /\ Cardinality(QualifyingTags) = 2

\* an entry of the memo found at the start of the call that the memo it leaves
\* does not repeat
StaleMemoFound ==
    \E id \in DOMAIN analysis.found.depth_cache :
        id \notin DOMAIN depth_cache \/ depth_cache[id] # analysis.found.depth_cache[id]

\* C23: for every comment list analyze_depth returns the same max_depth,
\* total_comments, total_replies and average_replies_per_comment with
\* cache_enabled = true as with cache_enabled = false; with the cache disabled
\* the depth memo stays empty, and with it enabled the memo is emptied at the
\* start of every call: what it holds after the call are depths of this call's
\* comments only.
C23_CacheDoesNotChangeTheAnalysis ==
    Analysed =>
        /\ analysis.value = DepthAnalysis(analysis.post_id, comments, ~cache_enabled).value
        /\ ~cache_enabled => depth_cache = <<>>
        /\ cache_enabled =>
              /\ DOMAIN depth_cache \subseteq IdsOf(comments)
              /\ \A id \in DOMAIN depth_cache :
                    depth_cache[id] = DepthOf(comments, id)

\* a call with the cache enabled that found the memo of an earlier call
C23_Witness ==
    /\ Analysed /\ cache_enabled
    /\ analysis.value.max_depth = 2
    /\ "found" \in DOMAIN analysis
    /\ StaleMemoFound

\* C28: the result of analyze_depth or detect_viral_chains depends only on the
\* comment list of the current call and the analyzer's thresholds: after any
\* sequence of earlier, completed calls on the same analyzer the result is that
\* of a freshly constructed analyzer.
C28_ResultIsThatOfAFreshAnalyzer ==
    /\ Analysed =>
          analysis.value = DepthAnalysis(analysis.post_id, comments, cache_enabled).value
    /\ Detected =>
          analysis.value =
              ViralAnalysis(analysis.post_id, comments, viral_min_replies, <<>>).value

\* a viral chain detected by a call that found the children index of other comments
C28_Witness ==
    /\ Detected
    /\ analysis.value.total_viral_chains >= 1
    /\ "found" \in DOMAIN analysis
    /\ \E id \in DOMAIN analysis.found.children_cache :
          /\ id \in IdsOf(comments)
          /\ analysis.found.children_cache[id] # ChildrenOf(comments, id)
    /\ analysis.found.depth_cache # <<>>

\* ------------------------------------------------------------- the nested tree
TreeBuilt == analysis.op = "get_comment_tree_structure" /\ ~analysis.raised

\* the nodes of a nested structure, each before its children
RECURSIVE FlattenNodes(_)
FlattenNodes(nodes) ==
    IF nodes = <<>> THEN <<>>
    ELSE <<Head(nodes)>> \o FlattenNodes(Head(nodes).children)
                        \o FlattenNodes(Tail(nodes))

NodeIds(nodes) == [i \in 1..Len(nodes) |-> nodes[i].id]

\* C22: get_comment_tree_structure returns one node per top-level comment, in
\* comment-list order, whose children list holds exactly the comments whose
\* parent_id is that node's id, each built the same way; no comment appears more
\* than once in the nested structure, and for a well-formed forest every comment
\* of the post appears in it.
C22_TreeIsTheForest ==
    TreeBuilt =>
        LET top == analysis.value.comments
            all == FlattenNodes(top)
        IN /\ NodeIds(top) =
                 NodeIds(SelectSeq(comments, LAMBDA c : c.parent_id = NoParent))
           /\ \A i \in 1..Len(all) :
                 /\ {all[i].children[j].id : j \in 1..Len(all[i].children)}
                    = {c.id : c \in {r \in SeqSet(comments) : r.parent_id = all[i].id}}
                 /\ Len(all[i].children)
                    = CountRows(comments, LAMBDA r : r.parent_id = all[i].id)
           /\ \A i, j \in 1..Len(all) : i # j => all[i].id # all[j].id
           /\ WellFormed(comments) =>
                 {all[i].id : i \in 1..Len(all)} = IdsOf(comments)

\* a forest of two top-level comments, one of them with a reply
C22_Witness ==
    /\ TreeBuilt
    /\ WellFormed(comments)
    /\ Len(analysis.value.comments) = 2
    /\ \E i \in 1..2 : Len(analysis.value.comments[i].children) = 1

\* the chains detect_viral_chains records for the comments, and the max_depth
\* analyze_depth reports for them
CountedChains ==
    AllChains(RootComments(comments), PrecomputeChildren(comments), viral_min_replies)

ReportedMaxDepth == DepthAnalysis(analysis.post_id, comments, cache_enabled).value.max_depth

\* C27: every chain counted by detect_viral_chains, and in particular
\* longest_chain_comments, starts at a viral comment with null parent_id, has
\* each later element a viral child of the element before it, contains no
\* comment twice, and has a length between 2 and the max_depth that
\* analyze_depth reports for the same comment list.
C27_ChainsAreViralPaths ==
    Detected =>
        /\ Len(CountedChains) = analysis.value.total_viral_chains
        /\ analysis.value.longest_chain_comments # <<>> =>
              \E i \in 1..Len(CountedChains) :
                  NodeIds(CountedChains[i]) = analysis.value.longest_chain_comments
        /\ \A i \in 1..Len(CountedChains) :
              LET chain == CountedChains[i]
              IN /\ chain[1].parent_id = NoParent
                 /\ \A j \in 1..Len(chain) :
                       /\ chain[j] \in SeqSet(comments)
                       /\ IsViralRow(comments, chain[j])
                       /\ j > 1 => chain[j].parent_id = chain[j - 1].id
                 /\ \A j, k \in 1..Len(chain) : j # k => chain[j].id # chain[k].id
                 /\ Len(chain) >= 2
                 /\ Len(chain) <= ReportedMaxDepth

\* a branch of three comments whose last one is not viral: the chain is shorter
\* than the branch
C27_Witness ==
    /\ Detected
    /\ analysis.value.longest_chain_length = 2
    /\ ReportedMaxDepth = 3

\* ------------------------------------------------------------- entries and buckets
\* every entry of the store has a bucket, and a get_status report says so
EntriesHaveBuckets ==
    /\ \A h \in DOMAIN counters : DOMAIN counters[h] # {}
    /\ ret.op = "get_status" => ret.value.total_buckets >= ret.value.total_hashtags

\* the call that has just returned is get_count, top or get_status
ReadStep == ret'.op \in {"get_count", "top", "get_status"}

\* the step makes no entry and no bucket
NothingCreated ==
    /\ DOMAIN counters' \subseteq DOMAIN counters
    /\ \A h \in DOMAIN counters' : DOMAIN counters'[h] \subseteq DOMAIN counters[h]

\* get_count on a key that is not in the store: 0, the key is still not there,
\* and the totals are those get_status has just reported
AbsentKeyRead ==
    (ret'.op = "get_count" /\ ret'.at = now /\ now' = now
        /\ ret'.hashtag \notin DOMAIN counters) =>
            /\ ret'.value = 0
            /\ ret'.hashtag \notin DOMAIN counters'
            /\ (ret.op = "get_status" /\ ret.at = now) =>
                  /\ Cardinality(DOMAIN counters') = ret.value.total_hashtags
                  /\ TotalBuckets(counters') = ret.value.total_buckets

AllQueryResults == UNION {QueryResults(mb) : mb \in MinutesBackArgs}

ReferenceOrder == CHOOSE order \in Perms(Hashtags) : TRUE

WithinRetention == AskedWindow > 0 /\ AskedWindow <= window_minutes

\* a query with 0 < W <= window_minutes returns what the reference store gives
SameAsReference ==
    /\ (ret.op = "get_count" /\ WithinRetention) =>
          ret.value = GetCountValue(ledger, ret.hashtag, ret.window, window_minutes, ret.at)
    /\ (ret.op = "top" /\ WithinRetention) =>
          ret.value = TopValue(ledger, ReferenceOrder, ret.k, ret.window,
                               window_minutes, ret.at)

\* a bucket that a step removes lies before every window of this minute or later
EvictsOnlyTheUncounted ==
    \A h \in DOMAIN counters : \A m \in DOMAIN counters[h] :
        (h \notin DOMAIN counters' \/ m \notin DOMAIN counters'[h])
            => m < now - window_minutes

\* C24: for clock-monotone histories made only of increment, get_count, top and
\* get_status calls, every get_count(key, W) and top(k, W) with
\* 0 < W <= window_minutes returns the same value as on a reference store that
\* never evicts: an eviction pass removes only buckets that no such query made
\* at or after that minute would count.
C24_EvictionIsInvisible ==
    /\ []SameAsReference
    /\ [][EvictsOnlyTheUncounted]_vars

\* get_count over the whole retention window, counting a bucket at its far edge,
\* after an older bucket was evicted
C24_Witness ==
    /\ ret.op = "get_count" /\ ret.at = now
    /\ ret.window = Some(window_minutes)
    /\ ret.at - window_minutes \in Minutes
    /\ ledger[ret.hashtag][ret.at - window_minutes] # 0
    /\ ret.value # 0
    /\ \E h \in Hashtags : \E m \in Minutes :
          /\ m < ret.at - window_minutes
          /\ ledger[h][m] # 0
          /\ h \notin DOMAIN counters \/ m \notin DOMAIN counters[h]

\* C21: after any sequence of insert_engagement_with_transaction calls on one
\* session at most one engagement exists for each (user_id, target_type,
\* target_id, kind): a call whose tuple already has an engagement raises
\* ValueError and adds no row.
C21_OneEngagementPerTuple ==
    /\ [](\A key \in DOMAIN eng.rows : eng.rows[key] <= 1)
    /\ [][(eng'.last.status # "none" /\ RowCount(eng.rows, eng'.last.key) >= 1) =>
             /\ eng'.rows = eng.rows
             /\ eng'.last.status = "raised"
             /\ eng'.last.error = "ValueError"]_vars

\* the second of two calls with the same tuple: a duplicate, raised, one row
C21_Witness ==
    /\ eng.last.status = "raised"
    /\ eng.last.message = "duplicate"
    /\ RowCount(eng.rows, eng.last.key) = 1
    /\ ~eng.last.also_increment_counter

=============================================================================
